---- MODULE Spec2Model ----
(***************************************************************************)
(* Repository permission inspectors for Bitbucket Cloud, GitHub, GitLab    *)
(* and Azure DevOps: four standalone scripts and the multi-platform        *)
(* inspector.  One sequential process runs one program; the HTTP server is *)
(* the environment and answers every request with a status and a page.     *)
(***************************************************************************)
EXTENDS Integers, Sequences, FiniteSets, TLC

VARIABLES
    prog,                \* the program that was started
    env,                 \* names of the environment variables that are set
    args,                \* parsed command line: [csv, json, quiet]
    pc,                  \* the function whose body is executing
    at,                  \* position inside the driver (__main__ / inspect / main)
    url, params, acc,    \* locals of the listing function that is executing
    containers, ci,      \* the container list being iterated and its index
    repos, ri,           \* the repository list being iterated and its index
    repositories,        \* per platform: all_repo_data / self.repositories
    errors,              \* per platform: self.errors
    valid_inspectors, vi,\* main(): platforms with credentials, loop index
    export_data,         \* main(): list of get_export_data() results
    total_repositories,  \* main(): summary counter
    console,             \* lines printed that report a failure or a result
    csvfile, jsonfile,   \* the files the exporters write
    exitcode,            \* process exit status
    exc,                 \* the exception that is propagating (<<>>: none)
    clock,               \* datetime.now(): fixed during a run, later in a later run
    net,                 \* the server side: log of requests and what was served
    run                  \* which run this is, and what the run before it saw and made

vars == <<prog, env, args, pc, at, url, params, acc, containers, ci, repos, ri,
          repositories, errors, valid_inspectors, vi, export_data,
          total_repositories, console, csvfile, jsonfile, exitcode, exc, clock, net,
          run>>

cfgVars  == <<prog, env, args, run>>
pipeVars == <<containers, ci, repos, ri>>
mainVars == <<valid_inspectors, vi, export_data, total_repositories>>
fileVars == <<csvfile, jsonfile>>

-----------------------------------------------------------------------------
(* Bounds of the model. *)

MaxBudget     == 4   \* records, cursors and failures the server hands out in a run
MaxPageLen    == 2   \* records in one page

-----------------------------------------------------------------------------
(* Python values. *)

None == "None"

NoParams == [x \in {} |-> None]     \* requests.get without params

NotWritten == [written |-> FALSE, content |-> <<>>]

Written(content) == [written |-> TRUE, content |-> content]

Get(d, k, default) == IF k \in DOMAIN d THEN d[k] ELSE default   \* dict.get

Max(a, b) == IF a > b THEN a ELSE b

RECURSIVE Concat(_)
Concat(ss) == IF ss = <<>> THEN <<>> ELSE Head(ss) \o Concat(Tail(ss))

Range(s) == {s[i] : i \in DOMAIN s}

RECURSIVE MapFilter(_, _, _)
\* [f(x) for x in s if p(x)], f and p given as functions on the elements of s
MapFilter(s, p, f) ==
    IF s = <<>> THEN <<>>
    ELSE (IF p[Head(s)] THEN <<f[Head(s)]>> ELSE <<>>) \o MapFilter(Tail(s), p, f)

BB == "Bitbucket Cloud"
GH == "GitHub"
GL == "GitLab"
AZ == "Azure DevOps"

PlatformSet == {BB, GH, GL, AZ}

-----------------------------------------------------------------------------
(* The server.  It answers a request of a listing with a status and, when  *)
(* the status is 200, a page: records and possibly a continuation cursor.  *)
(* The k-th record of a listing is named by k, so the records of one       *)
(* listing are distinct and two listings of one kind overlap; what the     *)
(* server is free to choose is the number of records in a page, the        *)
(* optional fields of each record, the cursor and the status.              *)

FailCodes == {401, 404}

N(k) == ToString(k)

\* the identity the credential belongs to, as the permissions API names it
CurrentUser == "me@org"

\* the variants of a record of each kind: which optional fields it carries
Variants(kind) ==
    CASE kind \in {"bb_workspaces", "bb_repos", "gh_orgs", "gl_groups",
                   "az_projects", "az_repos"} -> {"plain"}
      [] kind = "bb_users"   -> {"user", "no_user"}
      [] kind \in {"gh_user_repos", "gh_org_repos"} ->
             {"no_permissions", "no_admin", "admin_false", "admin_true"}
      [] kind = "gh_collaborators" -> {"full", "login_only"}
      [] kind \in {"gl_user_projects", "gl_group_projects"} ->
             {"no_permissions", "no_project_access", "level_30", "level_40", "level_50"}
      [] kind = "gl_members" -> {"owner", "developer", "username_only"}
      [] kind = "az_permissions" ->
             {"me_administer", "other_manage", "me_read", "group_administer", "anonymous"}

\* the k-th record of a listing, in variant v, as the JSON object the API returns
Record(kind, k, v) ==
    CASE kind = "bb_workspaces" -> [slug |-> "w" \o N(k)]
      [] kind = "bb_repos" -> [slug |-> "r" \o N(k), full_name |-> "team/r" \o N(k)]
      [] kind = "bb_users" ->
             IF v = "user"
               THEN [user |-> [username |-> "u" \o N(k), display_name |-> "U" \o N(k)],
                     permission |-> "admin"]
               ELSE [permission |-> "write"]
      [] kind = "gh_orgs" -> [login |-> "o" \o N(k)]
      [] kind \in {"gh_user_repos", "gh_org_repos"} ->
             LET base == [name |-> "r" \o N(k), full_name |-> "o/r" \o N(k),
                          owner |-> [login |-> "o"], private |-> "false",
                          html_url |-> "https://github.com/o/r" \o N(k)]
                 perm == CASE v = "no_admin"    -> [pull |-> TRUE]
                           [] v = "admin_false" -> [admin |-> FALSE]
                           [] v = "admin_true"  -> [admin |-> TRUE]
                           [] OTHER -> [pull |-> TRUE]
             IN  IF v = "no_permissions" THEN base
                 ELSE [f \in DOMAIN base \cup {"permissions"} |->
                          IF f = "permissions" THEN perm ELSE base[f]]
      [] kind = "gh_collaborators" ->
             IF v = "full"
               THEN [login |-> "u" \o N(k), name |-> "U" \o N(k), role_name |-> "admin"]
               ELSE [login |-> "u" \o N(k)]
      [] kind = "gl_groups" -> [id |-> k, name |-> "G" \o N(k), path |-> "g" \o N(k)]
      [] kind \in {"gl_user_projects", "gl_group_projects"} ->
             LET base == [id |-> k, name |-> "P" \o N(k), path |-> "p" \o N(k),
                          path_with_namespace |-> "g/p" \o N(k),
                          visibility |-> "private",
                          web_url |-> "https://gitlab.com/g/p" \o N(k)]
                 perm == CASE v = "no_project_access" -> [group_access |-> [access_level |-> 50]]
                           [] v = "level_30" -> [project_access |-> [access_level |-> 30]]
                           [] v = "level_40" -> [project_access |-> [access_level |-> 40]]
                           [] v = "level_50" -> [project_access |-> [access_level |-> 50]]
                           [] OTHER -> NoParams
             IN  IF v = "no_permissions" THEN base
                 ELSE [f \in DOMAIN base \cup {"permissions"} |->
                          IF f = "permissions" THEN perm ELSE base[f]]
      [] kind = "gl_members" ->
             CASE v = "owner" ->
                      [username |-> "u" \o N(k), name |-> "U" \o N(k), access_level |-> 50]
               [] v = "developer" ->
                      [username |-> "u" \o N(k), name |-> "U" \o N(k), access_level |-> 30]
               [] OTHER -> [username |-> "u" \o N(k)]
      [] kind = "az_projects" ->
             [id |-> "pid" \o N(k), name |-> "Project" \o N(k), state |-> "wellFormed"]
      [] kind = "az_repos" ->
             [id |-> "rid" \o N(k), name |-> "repo" \o N(k),
              project |-> [name |-> "Project"],
              webUrl |-> "https://dev.azure.com/org/_git/repo" \o N(k)]
      [] kind = "az_permissions" ->
             CASE v = "me_administer" ->
                      [identityType |-> "user", permission |-> "Administer",
                       identity |-> [displayName |-> "Me", uniqueName |-> CurrentUser]]
               [] v = "other_manage" ->
                      [identityType |-> "user", permission |-> "Manage",
                       identity |-> [uniqueName |-> "u" \o N(k) \o "@org"]]
               [] v = "me_read" ->
                      [identityType |-> "user", permission |-> "Read",
                       identity |-> [displayName |-> "Me", uniqueName |-> CurrentUser]]
               [] v = "group_administer" ->
                      [identityType |-> "group", permission |-> "Administer",
                       identity |-> [displayName |-> "Team" \o N(k)]]
               [] OTHER -> [identityType |-> "user"]

\* how each endpoint pages: "body_next" (next URL in the body), "link" (next link
\* relation), "token" (continuationToken in the body), "single" (one page)
Wire(kind) ==
    CASE kind \in {"bb_workspaces", "bb_repos", "bb_users"} -> "body_next"
      [] kind \in {"gh_orgs", "gh_user_repos", "gh_org_repos", "gh_collaborators",
                   "gl_groups", "gl_user_projects", "gl_group_projects", "gl_members"} -> "link"
      [] kind = "az_projects" -> "token"
      [] kind \in {"az_repos", "az_permissions"} -> "single"

Cursor(k) == "cursor" \o N(k)

\* the server answers a request that repeats the previous one as it answered that
Repeated(page) ==
    /\ net.log # <<>>
    /\ net.log[Len(net.log)].url = url
    /\ net.log[Len(net.log)].params = params
    /\ net.log[Len(net.log)].page = page

\* what a page costs the server: one per record, one for a cursor, one for a
\* failure; nothing for a repeated answer
Cost(page) ==
    IF Repeated(page) THEN 0
    ELSE Len(page.values) + (IF page.cursor # None THEN 1 ELSE 0)
                          + (IF page.status # 200 THEN 1 ELSE 0)

\* the platform the running function talks to
Platform ==
    CASE prog = "bitbucket_repos_user_list" -> BB
      [] prog = "github_repos_user_list" -> GH
      [] prog = "gitlab_repos_user_list" -> GL
      [] prog = "azure_devops_repos_user_list" -> AZ
      [] OTHER -> valid_inspectors[vi]

\* the requests in log that went to platform
Of(log, platform) == SelectSeq(log, LAMBDA e : e.platform = platform)

\* the pages a server with a free choice may serve to the next request
FreshPages(kind) ==
    LET curs == {None} \cup (IF Wire(kind) # "single" THEN {Cursor(net.cursors + 1)} ELSE {})
        vals == UNION {{[i \in 1..n |-> Record(kind, net.n + i, vs[i])] :
                          vs \in [1..n -> Variants(kind)]} : n \in 0..MaxPageLen}
        all  == {[status |-> 200, values |-> v, cursor |-> c] : v \in vals, c \in curs}
                \cup {[status |-> s, values |-> <<>>, cursor |-> None] : s \in FailCodes}
    IN  {page \in all : Cost(page) <= net.left}

\* the k-th response of tape, if it has one
Replay(tape, k) == IF k <= Len(tape) THEN {tape[k].page} ELSE {}

\* the pages the server may serve to the next request of the running listing:
\* free in a first run; in a second run the responses of the first run again,
\* all of them in order ("replay"), or platform by platform with 401 for every
\* request to GitHub ("github_401") or with a failure for every request to one
\* platform from its failat-th request on ("failing")
Pages(kind) ==
    CASE run.mode = "replay" -> Replay(run.tape, Len(net.log) + 1)
      [] run.mode = "github_401" ->
             IF Platform = GH
               THEN {[status |-> 401, values |-> <<>>, cursor |-> None]}
               ELSE Replay(Of(run.tape, Platform), Len(Of(net.log, Platform)) + 1)
      [] run.mode = "failing" ->
             IF Platform = run.victim /\ Len(Of(net.log, Platform)) + 1 >= run.failat
               THEN {[status |-> run.code, values |-> <<>>, cursor |-> None]}
               ELSE Replay(Of(run.tape, Platform), Len(Of(net.log, Platform)) + 1)
      [] OTHER -> FreshPages(kind)

\* a served page as the requests library presents it: status_code, json(), links
Response(kind, page) ==
    LET wire == Wire(kind)
        next == "https://next/" \o page.cursor
    IN  IF page.status # 200
          THEN [status_code |-> page.status, json |-> None, links |-> NoParams]
          ELSE [status_code |-> 200,
                json  |-> CASE wire = "body_next" ->
                                 IF page.cursor = None THEN [values |-> page.values]
                                 ELSE [values |-> page.values, next |-> next]
                            [] wire = "link" -> page.values
                            [] wire = "token" ->
                                 IF page.cursor = None THEN [value |-> page.values]
                                 ELSE [value |-> page.values,
                                       continuationToken |-> page.cursor]
                            [] wire = "single" -> [value |-> page.values],
                links |-> IF wire = "link" /\ page.cursor # None
                            THEN [next |-> [url |-> next]] ELSE NoParams]

\* requests.get(url, params=params) of function fn answered with page
Exchange(fn, page) ==
    net' = [net EXCEPT
              !.log = Append(@, [platform |-> Platform, fn |-> fn, call |-> net.calls,
                                 url |-> url,
                                 params |-> params, page |-> page]),
              !.n = @ + Len(page.values),
              !.left = Max(0, @ - Cost(page)),
              !.cursors = @ + (IF page.cursor # None THEN 1 ELSE 0)]

-----------------------------------------------------------------------------
(* Calls and returns.  A listing function runs with pc = its name; when it *)
(* returns, its result is in acc and the driver continues at `at`.         *)

Driver == IF prog = "multi_platform_inspector" THEN "inspect" ELSE "__main__"

Call(fn, u, p, back) ==
    /\ pc' = fn /\ url' = u /\ params' = p /\ acc' = <<>> /\ at' = back
    /\ net' = [net EXCEPT !.n = 0, !.calls = @ + 1]

\* a loop that starts its list again with every page
ContinueEmpty(a, u) == pc' = pc /\ acc' = <<>> /\ url' = u /\ at' = at

Continue(a, u) == pc' = pc /\ acc' = a /\ url' = u /\ at' = at

\* a loop that does not stop when no cursor is left
ReturnAndRequestAgain(a) ==
    pc' = pc /\ acc' = a /\ url' = None /\ params' = NoParams /\ at' = at

Return(a) == pc' = Driver /\ acc' = a /\ url' = None /\ params' = NoParams /\ at' = at

print(line) == console' = Append(console, line)

ErrorLine(what, res) == <<what, N(res.status_code)>>

-----------------------------------------------------------------------------
(* Exports shared by the programs. *)

CsvCell(v) == IF v = None THEN "" ELSE v      \* csv writes None as the empty string

export_to_json(data) == data      \* json.dump: the structure itself, in list order

ScriptFrame == UNCHANGED <<cfgVars, pipeVars, repositories, errors, mainVars, fileVars,
                           exitcode, exc, clock>>

-----------------------------------------------------------------------------
(* bitbucket_repos_user_list.py *)

\* a check of the user name alone
bitbucket_username_check ==
    /\ pc = "start" /\ prog = "bitbucket_repos_user_list"
    /\ IF "BITBUCKET_USERNAME" \notin env
         THEN /\ print(<<"Set BITBUCKET_USERNAME and BITBUCKET_APP_PASSWORD in your .env file.">>)
              /\ exitcode' = 1 /\ pc' = "exit"
         ELSE /\ pc' = "__main__" /\ UNCHANGED <<console, exitcode>>
    /\ UNCHANGED <<cfgVars, at, url, params, acc, pipeVars, repositories, errors,
                   mainVars, fileVars, exc, clock, net>>

bitbucket_credential_check ==
    /\ pc = "start" /\ prog = "bitbucket_repos_user_list"
    /\ IF "BITBUCKET_USERNAME" \notin env \/ "BITBUCKET_APP_PASSWORD" \notin env
         THEN /\ print(<<"Set BITBUCKET_USERNAME and BITBUCKET_APP_PASSWORD in your .env file.">>)
              /\ exitcode' = 1 /\ pc' = "exit"
         ELSE /\ pc' = "__main__" /\ UNCHANGED <<console, exitcode>>
    /\ UNCHANGED <<cfgVars, at, url, params, acc, pipeVars, repositories, errors,
                   mainVars, fileVars, exc, clock, net>>

bitbucket_get_workspaces ==
    /\ pc = "get_workspaces" /\ prog = "bitbucket_repos_user_list"
    /\ \E page \in Pages("bb_workspaces") :
         LET res == Response("bb_workspaces", page) IN
         /\ Exchange("get_workspaces", page)
         /\ IF res.status_code # 200
              THEN /\ print(ErrorLine("Error fetching workspaces", res))
                   /\ Return(acc)
              ELSE LET data == res.json
                       values == Get(data, "values", <<>>)
                       workspaces == acc \o [i \in 1..Len(values) |-> values[i].slug]
                       next == Get(data, "next", None)
                   IN  /\ UNCHANGED console
                       /\ IF next # None THEN Continue(workspaces, next) /\ UNCHANGED params
                                         ELSE Return(workspaces)
    /\ ScriptFrame

bitbucket_repo(repo, workspace) ==
    [slug |-> repo.slug, full_name |-> repo.full_name, workspace |-> workspace]

\* a listing that returns nothing when a page fails
bitbucket_get_admin_repos_or_nothing ==
    /\ pc = "get_admin_repos" /\ prog = "bitbucket_repos_user_list"
    /\ \E page \in Pages("bb_repos") :
         LET res == Response("bb_repos", page)
             workspace == containers[ci] IN
         /\ Exchange("get_admin_repos", page)
         /\ IF res.status_code # 200
              THEN /\ print(ErrorLine("Error fetching repos for " \o workspace, res))
                   /\ Return(<<>>)
              ELSE LET data == res.json
                       values == Get(data, "values", <<>>)
                       rs == acc \o [i \in 1..Len(values) |->
                                       bitbucket_repo(values[i], workspace)]
                       next == Get(data, "next", None)
                   IN  /\ UNCHANGED console
                       /\ IF next # None THEN Continue(rs, next) /\ UNCHANGED params
                                         ELSE Return(rs)
    /\ ScriptFrame

bitbucket_get_admin_repos ==
    /\ pc = "get_admin_repos" /\ prog = "bitbucket_repos_user_list"
    /\ \E page \in Pages("bb_repos") :
         LET res == Response("bb_repos", page)
             workspace == containers[ci] IN
         /\ Exchange("get_admin_repos", page)
         /\ IF res.status_code # 200
              THEN /\ print(ErrorLine("Error fetching repos for " \o workspace, res))
                   /\ Return(acc)
              ELSE LET data == res.json
                       values == Get(data, "values", <<>>)
                       rs == acc \o [i \in 1..Len(values) |->
                                       bitbucket_repo(values[i], workspace)]
                       next == Get(data, "next", None)
                   IN  /\ UNCHANGED console
                       /\ IF next # None THEN Continue(rs, next) /\ UNCHANGED params
                                         ELSE Return(rs)
    /\ ScriptFrame

bitbucket_user(entry) ==
    LET user_info == Get(entry, "user", NoParams) IN
    [username |-> Get(user_info, "username", None),
     display_name |-> Get(user_info, "display_name", None),
     permission |-> Get(entry, "permission", None)]

bitbucket_get_repo_users ==
    /\ pc = "get_repo_users" /\ prog = "bitbucket_repos_user_list"
    /\ \E page \in Pages("bb_users") :
         LET res == Response("bb_users", page) IN
         /\ Exchange("get_repo_users", page)
         /\ IF res.status_code # 200
              THEN /\ print(ErrorLine("Error fetching users for repo " \o repos[ri].slug, res))
                   /\ Return(acc)
              ELSE LET data == res.json
                       values == Get(data, "values", <<>>)
                       users == acc \o [i \in 1..Len(values) |-> bitbucket_user(values[i])]
                       next == Get(data, "next", None)
                   IN  /\ UNCHANGED console
                       /\ IF next # None THEN Continue(users, next) /\ UNCHANGED params
                                         ELSE Return(users)
    /\ ScriptFrame

\* an export that writes the rows of the users only
bitbucket_user_rows(repo) ==
    [i \in 1..Len(Get(repo, "users", <<>>)) |->
       <<repo.workspace, repo.full_name,
         CsvCell(repo.users[i].username),
         CsvCell(repo.users[i].display_name),
         CsvCell(repo.users[i].permission)>>]

bitbucket_csv_rows(repo) ==
    IF Get(repo, "users", <<>>) # <<>>
      THEN [i \in 1..Len(repo.users) |->
              <<repo.workspace, repo.full_name,
                CsvCell(repo.users[i].username),
                CsvCell(repo.users[i].display_name),
                CsvCell(repo.users[i].permission)>>]
      ELSE << <<repo.workspace, repo.full_name, "", "", "">> >>

bitbucket_export_to_csv(data) ==
    << <<"workspace", "repository", "username", "display_name", "permission">> >>
    \o Concat([i \in 1..Len(data) |-> bitbucket_csv_rows(data[i])])

\* the end of a script: the exports that were asked for, then exit
Finish(csv, json) ==
    /\ csvfile' = IF args.csv THEN Written(csv) ELSE csvfile
    /\ jsonfile' = IF args.json THEN Written(json) ELSE jsonfile
    /\ exitcode' = 0 /\ pc' = "exit" /\ at' = "end"
    /\ UNCHANGED <<url, params, acc, pipeVars, net>>

\* for ws in workspaces: from index i on, call get_admin_repos or finish
bitbucket_for_ws(workspaces, i) ==
    IF i < Len(workspaces)
      THEN /\ containers' = workspaces /\ ci' = i + 1
           /\ Call("get_admin_repos",
                   "https://api.bitbucket.org/2.0/repositories/" \o workspaces[i + 1],
                   [role |-> "admin", pagelen |-> 50], "repos")
           /\ UNCHANGED <<repos, ri, fileVars, exitcode>>
      ELSE Finish(bitbucket_export_to_csv(repositories'[BB]),
                  export_to_json(repositories'[BB]))

\* a loop that reports the first repository of a workspace only
bitbucket_for_first_repo(rs, j) ==
    IF j < Len(rs) /\ j = 0
      THEN /\ repos' = rs /\ ri' = j + 1
           /\ Call("get_repo_users",
                   "https://api.bitbucket.org/2.0/repositories/" \o containers[ci]
                     \o "/" \o rs[j + 1].slug \o "/permissions-config/users",
                   NoParams, "users")
           /\ UNCHANGED <<containers, ci, fileVars, exitcode>>
      ELSE bitbucket_for_ws(containers, ci)

\* for repo in repos: from index j on, call get_repo_users or go to the next workspace
bitbucket_for_repo(rs, j) ==
    IF j < Len(rs)
      THEN /\ repos' = rs /\ ri' = j + 1
           /\ Call("get_repo_users",
                   "https://api.bitbucket.org/2.0/repositories/" \o containers[ci]
                     \o "/" \o rs[j + 1].slug \o "/permissions-config/users",
                   NoParams, "users")
           /\ UNCHANGED <<containers, ci, fileVars, exitcode>>
      ELSE bitbucket_for_ws(containers, ci)

bitbucket_main ==
    /\ pc = "__main__" /\ prog = "bitbucket_repos_user_list"
    /\ \/ /\ at = "start"
          /\ Call("get_workspaces", "https://api.bitbucket.org/2.0/workspaces",
                  NoParams, "workspaces")
          /\ UNCHANGED <<pipeVars, repositories, fileVars, exitcode>>
       \/ /\ at = "workspaces"
          /\ UNCHANGED repositories
          /\ bitbucket_for_ws(acc, 0)
       \/ /\ at = "repos"
          /\ UNCHANGED repositories
          /\ bitbucket_for_repo(acc, 0)
       \/ /\ at = "users"
          /\ repositories' = [repositories EXCEPT ![BB] =
                 Append(@, [workspace |-> containers[ci], slug |-> repos[ri].slug,
                            full_name |-> repos[ri].full_name, users |-> acc])]
          /\ bitbucket_for_repo(repos, ri)
    /\ UNCHANGED <<cfgVars, errors, mainVars, console, exc, clock>>

-----------------------------------------------------------------------------
(* github_repos_user_list.py *)

github_credential_check ==
    /\ pc = "start" /\ prog = "github_repos_user_list"
    /\ IF "GITHUB_USERNAME" \notin env \/ "GITHUB_TOKEN" \notin env
         THEN /\ print(<<"Set GITHUB_USERNAME and GITHUB_TOKEN in your .env file.">>)
              /\ exitcode' = 1 /\ pc' = "exit"
         ELSE /\ pc' = "__main__" /\ UNCHANGED <<console, exitcode>>
    /\ UNCHANGED <<cfgVars, at, url, params, acc, pipeVars, repositories, errors,
                   mainVars, fileVars, exc, clock, net>>

\* res.links['next']['url'] when the response has a next link relation, else None
LinkNext(res) == IF "next" \in DOMAIN res.links THEN res.links["next"].url ELSE None

github_get_user_organizations ==
    /\ pc = "get_user_organizations" /\ prog = "github_repos_user_list"
    /\ \E page \in Pages("gh_orgs") :
         LET res == Response("gh_orgs", page) IN
         /\ Exchange("get_user_organizations", page)
         /\ IF res.status_code # 200
              THEN /\ print(ErrorLine("Error fetching organizations", res))
                   /\ Return(acc)
              ELSE LET data == res.json
                       orgs == acc \o [i \in 1..Len(data) |-> data[i].login]
                   IN  /\ UNCHANGED console
                       /\ IF LinkNext(res) # None
                            THEN Continue(orgs, LinkNext(res)) /\ UNCHANGED params
                            ELSE Return(orgs)
    /\ ScriptFrame

\* a filter that takes any permissions object for admin access
github_has_permissions(repo) == "permissions" \in DOMAIN repo

\* repo.get('permissions', {}).get('admin', False)
github_is_admin(repo) == Get(Get(repo, "permissions", NoParams), "admin", FALSE)

github_repo(repo) ==
    [name |-> repo.name, full_name |-> repo.full_name, owner |-> repo.owner.login,
     private |-> repo.private, html_url |-> repo.html_url]

\* the admin repositories of one page, in page order
github_admin_repos_of(data) ==
    MapFilter(data, [r \in Range(data) |-> github_is_admin(r)],
                    [r \in Range(data) |-> github_repo(r)])

github_get_admin_repos ==
    /\ pc = "get_admin_repos" /\ prog = "github_repos_user_list"
    /\ \E page \in Pages("gh_user_repos") :
         LET res == Response("gh_user_repos", page) IN
         /\ Exchange("get_admin_repos", page)
         /\ IF res.status_code # 200
              THEN /\ print(ErrorLine("Error fetching repos", res))
                   /\ Return(acc)
              ELSE LET rs == acc \o github_admin_repos_of(res.json)
                   IN  /\ UNCHANGED console
                       /\ IF LinkNext(res) # None
                            THEN Continue(rs, LinkNext(res)) /\ UNCHANGED params
                            ELSE Return(rs)
    /\ ScriptFrame

github_get_org_admin_repos ==
    /\ pc = "get_org_admin_repos" /\ prog = "github_repos_user_list"
    /\ \E page \in Pages("gh_org_repos") :
         LET res == Response("gh_org_repos", page) IN
         /\ Exchange("get_org_admin_repos", page)
         /\ IF res.status_code # 200
              THEN /\ print(ErrorLine("Error fetching repos for org " \o containers[ci], res))
                   /\ Return(acc)
              ELSE LET rs == acc \o github_admin_repos_of(res.json)
                   IN  /\ UNCHANGED console
                       /\ IF LinkNext(res) # None
                            THEN Continue(rs, LinkNext(res)) /\ UNCHANGED params
                            ELSE Return(rs)
    /\ ScriptFrame

github_user(user) ==
    [username |-> user.login,
     display_name |-> Get(user, "name", user.login),
     permission |-> Get(user, "role_name", "unknown")]

github_get_repo_collaborators ==
    /\ pc = "get_repo_collaborators" /\ prog = "github_repos_user_list"
    /\ \E page \in Pages("gh_collaborators") :
         LET res == Response("gh_collaborators", page) IN
         /\ Exchange("get_repo_collaborators", page)
         /\ IF res.status_code # 200
              THEN /\ print(ErrorLine("Error fetching collaborators for "
                                        \o repos[ri].owner \o "/" \o repos[ri].name, res))
                   /\ Return(acc)
              ELSE LET data == res.json
                       users == acc \o [i \in 1..Len(data) |-> github_user(data[i])]
                   IN  /\ UNCHANGED console
                       /\ IF LinkNext(res) # None
                            THEN Continue(users, LinkNext(res)) /\ UNCHANGED params
                            ELSE Return(users)
    /\ ScriptFrame

github_csv_rows(repo) ==
    IF Get(repo, "users", <<>>) # <<>>
      THEN [i \in 1..Len(repo.users) |->
              <<repo.full_name, Get(repo, "type", "personal"), Get(repo, "owner", ""),
                CsvCell(repo.users[i].username),
                CsvCell(repo.users[i].display_name),
                CsvCell(repo.users[i].permission)>>]
      ELSE << <<repo.full_name, Get(repo, "type", "personal"), Get(repo, "owner", ""),
                "", "", "">> >>

github_export_to_csv(data) ==
    << <<"repository", "type", "owner", "username", "display_name", "permission">> >>
    \o Concat([i \in 1..Len(data) |-> github_csv_rows(data[i])])

github_collaborators_url(repo) ==
    "https://api.github.com/repos/" \o repo.owner \o "/" \o repo.name \o "/collaborators"

\* for org in orgs: from index i on, call get_org_admin_repos or finish
github_for_org(orgs, i) ==
    IF i < Len(orgs)
      THEN /\ containers' = orgs /\ ci' = i + 1
           /\ Call("get_org_admin_repos",
                   "https://api.github.com/orgs/" \o orgs[i + 1] \o "/repos",
                   [type |-> "all", per_page |-> 100], "org_repos")
           /\ UNCHANGED <<repos, ri, fileVars, exitcode>>
      ELSE Finish(github_export_to_csv(repositories'[GH]),
                  export_to_json(repositories'[GH]))

\* for repo in org_repos: from index j on, call get_repo_collaborators or go to the next org
github_for_org_repo(rs, j) ==
    IF j < Len(rs)
      THEN /\ repos' = rs /\ ri' = j + 1
           /\ Call("get_repo_collaborators", github_collaborators_url(rs[j + 1]),
                   [per_page |-> 100], "org_users")
           /\ UNCHANGED <<containers, ci, fileVars, exitcode>>
      ELSE github_for_org(containers, ci)

\* for repo in personal_repos: from index j on, call get_repo_collaborators or
\* go on to the organizations
github_for_personal_repo(rs, j) ==
    IF j < Len(rs)
      THEN /\ repos' = rs /\ ri' = j + 1
           /\ Call("get_repo_collaborators", github_collaborators_url(rs[j + 1]),
                   [per_page |-> 100], "personal_users")
           /\ UNCHANGED <<containers, ci, fileVars, exitcode>>
      ELSE /\ Call("get_user_organizations", "https://api.github.com/user/orgs",
                   NoParams, "orgs")
           /\ UNCHANGED <<pipeVars, fileVars, exitcode>>

github_main ==
    /\ pc = "__main__" /\ prog = "github_repos_user_list"
    /\ \/ /\ at = "start"
          /\ Call("get_admin_repos", "https://api.github.com/user/repos",
                  [type |-> "all", sort |-> "updated", per_page |-> 100], "personal_repos")
          /\ UNCHANGED <<pipeVars, repositories, fileVars, exitcode>>
       \/ /\ at = "personal_repos"
          /\ UNCHANGED repositories
          /\ github_for_personal_repo(acc, 0)
       \/ /\ at = "personal_users"
          /\ repositories' = [repositories EXCEPT ![GH] =
                 Append(@, [full_name |-> repos[ri].full_name, name |-> repos[ri].name,
                            owner |-> repos[ri].owner, type |-> "personal",
                            private |-> repos[ri].private, html_url |-> repos[ri].html_url,
                            users |-> acc])]
          /\ github_for_personal_repo(repos, ri)
       \/ /\ at = "orgs"
          /\ UNCHANGED repositories
          /\ github_for_org(acc, 0)
       \/ /\ at = "org_repos"
          /\ UNCHANGED repositories
          /\ github_for_org_repo(acc, 0)
       \/ /\ at = "org_users"
          /\ repositories' = [repositories EXCEPT ![GH] =
                 Append(@, [full_name |-> repos[ri].full_name, name |-> repos[ri].name,
                            owner |-> repos[ri].owner, type |-> "organization",
                            organization |-> containers[ci],
                            private |-> repos[ri].private, html_url |-> repos[ri].html_url,
                            users |-> acc])]
          /\ github_for_org_repo(repos, ri)
    /\ UNCHANGED <<cfgVars, errors, mainVars, console, exc, clock>>

-----------------------------------------------------------------------------
(* gitlab_repos_user_list.py *)

GITLAB_URL == "https://gitlab.com"

gitlab_credential_check ==
    /\ pc = "start" /\ prog = "gitlab_repos_user_list"
    /\ IF "GITLAB_TOKEN" \notin env
         THEN /\ print(<<"Set GITLAB_TOKEN in your .env file.">>)
              /\ exitcode' = 1 /\ pc' = "exit"
         ELSE /\ pc' = "__main__" /\ UNCHANGED <<console, exitcode>>
    /\ UNCHANGED <<cfgVars, at, url, params, acc, pipeVars, repositories, errors,
                   mainVars, fileVars, exc, clock, net>>

gitlab_group(group) == [id |-> group.id, name |-> group.name, path |-> group.path]

gitlab_get_user_groups ==
    /\ pc = "get_user_groups" /\ prog = "gitlab_repos_user_list"
    /\ \E page \in Pages("gl_groups") :
         LET res == Response("gl_groups", page) IN
         /\ Exchange("get_user_groups", page)
         /\ IF res.status_code # 200
              THEN /\ print(ErrorLine("Error fetching groups", res))
                   /\ Return(acc)
              ELSE LET data == res.json
                       groups == acc \o [i \in 1..Len(data) |-> gitlab_group(data[i])]
                   IN  /\ UNCHANGED console
                       /\ IF LinkNext(res) # None
                            THEN Continue(groups, LinkNext(res)) /\ UNCHANGED params
                            ELSE Return(groups)
    /\ ScriptFrame

\* project.get('permissions', {}).get('project_access', {}).get('access_level', 0)
gitlab_access_level(project) ==
    Get(Get(Get(project, "permissions", NoParams), "project_access", NoParams),
        "access_level", 0)

\* a threshold set one level too low
gitlab_is_developer(project) == gitlab_access_level(project) >= 30

gitlab_is_maintainer(project) == gitlab_access_level(project) >= 40

gitlab_project(project) ==
    [id |-> project.id, name |-> project.name, path |-> project.path,
     full_path |-> project.path_with_namespace, visibility |-> project.visibility,
     web_url |-> project.web_url]

\* the projects of one page with maintainer or owner access, in page order
gitlab_projects_of(data) ==
    MapFilter(data, [r \in Range(data) |-> gitlab_is_maintainer(r)],
                    [r \in Range(data) |-> gitlab_project(r)])

gitlab_get_user_projects ==
    /\ pc = "get_user_projects" /\ prog = "gitlab_repos_user_list"
    /\ \E page \in Pages("gl_user_projects") :
         LET res == Response("gl_user_projects", page) IN
         /\ Exchange("get_user_projects", page)
         /\ IF res.status_code # 200
              THEN /\ print(ErrorLine("Error fetching projects", res))
                   /\ Return(acc)
              ELSE LET projects == acc \o gitlab_projects_of(res.json)
                   IN  /\ UNCHANGED console
                       /\ IF LinkNext(res) # None
                            THEN Continue(projects, LinkNext(res)) /\ UNCHANGED params
                            ELSE Return(projects)
    /\ ScriptFrame

gitlab_get_group_projects ==
    /\ pc = "get_group_projects" /\ prog = "gitlab_repos_user_list"
    /\ \E page \in Pages("gl_group_projects") :
         LET res == Response("gl_group_projects", page) IN
         /\ Exchange("get_group_projects", page)
         /\ IF res.status_code # 200
              THEN /\ print(ErrorLine("Error fetching group projects", res))
                   /\ Return(acc)
              ELSE LET projects == acc \o gitlab_projects_of(res.json)
                   IN  /\ UNCHANGED console
                       /\ IF LinkNext(res) # None
                            THEN Continue(projects, LinkNext(res)) /\ UNCHANGED params
                            ELSE Return(projects)
    /\ ScriptFrame

\* Map access levels to readable names
\* a mapping that takes every level below developer for guest
gitlab_permission_coarse(access_level) ==
    IF access_level = 50 THEN "owner"
    ELSE IF access_level = 40 THEN "maintainer"
    ELSE IF access_level = 30 THEN "developer"
    ELSE IF access_level = 20 THEN "guest"
    ELSE IF access_level = 10 THEN "guest"
    ELSE "unknown"

gitlab_permission(access_level) ==
    IF access_level = 50 THEN "owner"
    ELSE IF access_level = 40 THEN "maintainer"
    ELSE IF access_level = 30 THEN "developer"
    ELSE IF access_level = 20 THEN "reporter"
    ELSE IF access_level = 10 THEN "guest"
    ELSE "unknown"

\* an entry without the numeric level
gitlab_user_without_level(user) ==
    [username |-> user.username,
     display_name |-> Get(user, "name", user.username),
     permission |-> gitlab_permission(Get(user, "access_level", 0))]

gitlab_user(user) ==
    LET access_level == Get(user, "access_level", 0) IN
    [username |-> user.username,
     display_name |-> Get(user, "name", user.username),
     permission |-> gitlab_permission(access_level),
     access_level |-> access_level]

gitlab_get_project_members ==
    /\ pc = "get_project_members" /\ prog = "gitlab_repos_user_list"
    /\ \E page \in Pages("gl_members") :
         LET res == Response("gl_members", page) IN
         /\ Exchange("get_project_members", page)
         /\ IF res.status_code # 200
              THEN /\ print(ErrorLine("Error fetching project members", res))
                   /\ Return(acc)
              ELSE LET data == res.json
                       users == acc \o [i \in 1..Len(data) |-> gitlab_user(data[i])]
                   IN  /\ UNCHANGED console
                       /\ IF LinkNext(res) # None
                            THEN Continue(users, LinkNext(res)) /\ UNCHANGED params
                            ELSE Return(users)
    /\ ScriptFrame

gitlab_csv_rows(project) ==
    IF Get(project, "users", <<>>) # <<>>
      THEN [i \in 1..Len(project.users) |->
              <<project.full_path, Get(project, "type", "personal"),
                Get(project, "group", ""),
                CsvCell(project.users[i].username),
                CsvCell(project.users[i].display_name),
                CsvCell(project.users[i].permission),
                IF "access_level" \in DOMAIN project.users[i]
                  THEN N(project.users[i].access_level) ELSE "">>]
      ELSE << <<project.full_path, Get(project, "type", "personal"),
                Get(project, "group", ""), "", "", "", "">> >>

gitlab_export_to_csv(data) ==
    << <<"project", "type", "group", "username", "display_name", "permission",
         "access_level">> >>
    \o Concat([i \in 1..Len(data) |-> gitlab_csv_rows(data[i])])

gitlab_members_url(project) ==
    GITLAB_URL \o "/api/v4/projects/" \o N(project.id) \o "/members"

\* for group in groups: from index i on, call get_group_projects or finish
gitlab_for_group(groups, i) ==
    IF i < Len(groups)
      THEN /\ containers' = groups /\ ci' = i + 1
           /\ Call("get_group_projects",
                   GITLAB_URL \o "/api/v4/groups/" \o N(groups[i + 1].id) \o "/projects",
                   [per_page |-> 100], "group_projects")
           /\ UNCHANGED <<repos, ri, fileVars, exitcode>>
      ELSE Finish(gitlab_export_to_csv(repositories'[GL]),
                  export_to_json(repositories'[GL]))

\* for project in group_projects: from index j on, call get_project_members or
\* go to the next group
gitlab_for_group_project(ps, j) ==
    IF j < Len(ps)
      THEN /\ repos' = ps /\ ri' = j + 1
           /\ Call("get_project_members", gitlab_members_url(ps[j + 1]),
                   [per_page |-> 100], "group_users")
           /\ UNCHANGED <<containers, ci, fileVars, exitcode>>
      ELSE gitlab_for_group(containers, ci)

\* for project in personal_projects: from index j on, call get_project_members or
\* go on to the groups
gitlab_for_personal_project(ps, j) ==
    IF j < Len(ps)
      THEN /\ repos' = ps /\ ri' = j + 1
           /\ Call("get_project_members", gitlab_members_url(ps[j + 1]),
                   [per_page |-> 100], "personal_users")
           /\ UNCHANGED <<containers, ci, fileVars, exitcode>>
      ELSE /\ Call("get_user_groups", GITLAB_URL \o "/api/v4/groups",
                   [per_page |-> 100], "groups")
           /\ UNCHANGED <<pipeVars, fileVars, exitcode>>

gitlab_main ==
    /\ pc = "__main__" /\ prog = "gitlab_repos_user_list"
    /\ \/ /\ at = "start"
          /\ Call("get_user_projects", GITLAB_URL \o "/api/v4/projects",
                  [membership |-> TRUE, per_page |-> 100], "personal_projects")
          /\ UNCHANGED <<pipeVars, repositories, fileVars, exitcode>>
       \/ /\ at = "personal_projects"
          /\ UNCHANGED repositories
          /\ gitlab_for_personal_project(acc, 0)
       \/ /\ at = "personal_users"
          /\ repositories' = [repositories EXCEPT ![GL] =
                 Append(@, [id |-> repos[ri].id, name |-> repos[ri].name,
                            full_path |-> repos[ri].full_path, type |-> "personal",
                            visibility |-> repos[ri].visibility,
                            web_url |-> repos[ri].web_url, users |-> acc])]
          /\ gitlab_for_personal_project(repos, ri)
       \/ /\ at = "groups"
          /\ UNCHANGED repositories
          /\ gitlab_for_group(acc, 0)
       \/ /\ at = "group_projects"
          /\ UNCHANGED repositories
          /\ gitlab_for_group_project(acc, 0)
       \/ /\ at = "group_users"
          /\ repositories' = [repositories EXCEPT ![GL] =
                 Append(@, [id |-> repos[ri].id, name |-> repos[ri].name,
                            full_path |-> repos[ri].full_path, type |-> "group",
                            group |-> containers[ci].name,
                            visibility |-> repos[ri].visibility,
                            web_url |-> repos[ri].web_url, users |-> acc])]
          /\ gitlab_for_group_project(repos, ri)
    /\ UNCHANGED <<cfgVars, errors, mainVars, console, exc, clock>>

-----------------------------------------------------------------------------
(* azure_devops_repos_user_list.py *)

ORGANIZATION == "org"

azure_credential_check ==
    /\ pc = "start" /\ prog = "azure_devops_repos_user_list"
    /\ IF "AZURE_DEVOPS_PAT" \notin env \/ "AZURE_DEVOPS_ORG" \notin env
         THEN /\ print(<<"Set AZURE_DEVOPS_PAT and AZURE_DEVOPS_ORG in your .env file.">>)
              /\ exitcode' = 1 /\ pc' = "exit"
         ELSE /\ pc' = "__main__" /\ UNCHANGED <<console, exitcode>>
    /\ UNCHANGED <<cfgVars, at, url, params, acc, pipeVars, repositories, errors,
                   mainVars, fileVars, exc, clock, net>>

azure_project(project) ==
    [id |-> project.id, name |-> project.name,
     description |-> Get(project, "description", ""), state |-> project.state]

\* a merge that keeps the token the parameters already carry
WithFirstToken(p, token) ==
    IF "continuationToken" \in DOMAIN p
      THEN p
      ELSE [k \in DOMAIN p \cup {"continuationToken"} |->
              IF k = "continuationToken" THEN token ELSE p[k]]

\* params['continuationToken'] = data['continuationToken']
WithToken(p, token) ==
    [k \in DOMAIN p \cup {"continuationToken"} |->
        IF k = "continuationToken" THEN token ELSE p[k]]

azure_get_projects ==
    /\ pc = "get_projects" /\ prog = "azure_devops_repos_user_list"
    /\ \E page \in Pages("az_projects") :
         LET res == Response("az_projects", page) IN
         /\ Exchange("get_projects", page)
         /\ IF res.status_code # 200
              THEN /\ print(ErrorLine("Error fetching projects", res))
                   /\ Return(acc)
              ELSE LET data == res.json
                       value == Get(data, "value", <<>>)
                       projects == acc \o [i \in 1..Len(value) |-> azure_project(value[i])]
                   IN  /\ UNCHANGED console
                       /\ IF "continuationToken" \in DOMAIN data
                            THEN /\ Continue(projects, url)
                                 /\ params' = WithToken(params, data.continuationToken)
                            ELSE Return(projects)
    /\ ScriptFrame

azure_repo(repo) ==
    [id |-> repo.id, name |-> repo.name, project |-> repo.project.name,
     default_branch |-> Get(repo, "defaultBranch", ""), web_url |-> repo.webUrl]

azure_get_repositories ==
    /\ pc = "get_repositories" /\ prog = "azure_devops_repos_user_list"
    /\ \E page \in Pages("az_repos") :
         LET res == Response("az_repos", page) IN
         /\ Exchange("get_repositories", page)
         /\ IF res.status_code # 200
              THEN /\ print(ErrorLine("Error fetching repositories for project "
                                        \o containers[ci].id, res))
                   /\ Return(<<>>)
              ELSE LET value == Get(res.json, "value", <<>>)
                   IN  /\ UNCHANGED console
                       /\ Return([i \in 1..Len(value) |-> azure_repo(value[i])])
    /\ ScriptFrame

\* a check that takes any entry of a user, whatever its permission
azure_is_any_user_entry(permission) == Get(permission, "identityType", None) = "user"

\* permission.get('identityType') == 'user' and
\* permission.get('permission') in ['Administer', 'Manage']
azure_is_admin_entry(permission) ==
    /\ Get(permission, "identityType", None) = "user"
    /\ Get(permission, "permission", None) \in {"Administer", "Manage"}

\* the loop of check_user_permissions over data.get('value', [])
\* a check that passes every repository with a permission entry
azure_has_entry(value) == value # <<>>

azure_has_admin(value) == \E i \in 1..Len(value) : azure_is_admin_entry(value[i])

azure_check_user_permissions ==
    /\ pc = "check_user_permissions" /\ prog = "azure_devops_repos_user_list"
    /\ \E page \in Pages("az_permissions") :
         LET res == Response("az_permissions", page) IN
         /\ Exchange("check_user_permissions", page)
         /\ IF res.status_code # 200
              THEN Return(FALSE)
              ELSE Return(azure_has_admin(Get(res.json, "value", <<>>)))
    /\ UNCHANGED console
    /\ ScriptFrame

\* a filter that keeps the entries of groups
azure_is_group_entry(permission) == Get(permission, "identityType", None) = "group"

azure_is_user_entry(permission) == Get(permission, "identityType", None) = "user"

azure_user(permission) ==
    LET identity == Get(permission, "identity", NoParams) IN
    [username |-> Get(identity, "displayName", Get(identity, "uniqueName", "Unknown")),
     email |-> Get(identity, "uniqueName", ""),
     permission |-> Get(permission, "permission", "unknown")]

azure_users_of(value) ==
    MapFilter(value, [r \in Range(value) |-> azure_is_user_entry(r)],
                     [r \in Range(value) |-> azure_user(r)])

azure_get_repository_permissions ==
    /\ pc = "get_repository_permissions" /\ prog = "azure_devops_repos_user_list"
    /\ \E page \in Pages("az_permissions") :
         LET res == Response("az_permissions", page) IN
         /\ Exchange("get_repository_permissions", page)
         /\ IF res.status_code # 200
              THEN /\ print(ErrorLine("Error fetching repository permissions", res))
                   /\ Return(<<>>)
              ELSE /\ UNCHANGED console
                   /\ Return(azure_users_of(Get(res.json, "value", <<>>)))
    /\ ScriptFrame

azure_csv_rows(repo) ==
    IF Get(repo, "users", <<>>) # <<>>
      THEN [i \in 1..Len(repo.users) |->
              <<repo.project, repo.repository,
                CsvCell(repo.users[i].username),
                CsvCell(Get(repo.users[i], "email", "")),
                CsvCell(repo.users[i].permission)>>]
      ELSE << <<repo.project, repo.repository, "", "", "">> >>

azure_export_to_csv(data) ==
    << <<"project", "repository", "username", "email", "permission">> >>
    \o Concat([i \in 1..Len(data) |-> azure_csv_rows(data[i])])

azure_permissions_url(repo) ==
    "https://dev.azure.com/" \o ORGANIZATION \o "/_apis/git/repositories/"
      \o repo.id \o "/permissions"

\* for project in projects: from index i on, call get_repositories or finish
azure_for_project(projects, i) ==
    IF i < Len(projects)
      THEN /\ containers' = projects /\ ci' = i + 1
           /\ Call("get_repositories",
                   "https://dev.azure.com/" \o ORGANIZATION \o "/" \o projects[i + 1].id
                     \o "/_apis/git/repositories",
                   "api-version" :> "6.0", "repos")
           /\ UNCHANGED <<repos, ri, fileVars, exitcode>>
      ELSE Finish(azure_export_to_csv(repositories'[AZ]),
                  export_to_json(repositories'[AZ]))

\* for repo in repos: from index j on, call check_user_permissions or go to the
\* next project
azure_for_repo(rs, j) ==
    IF j < Len(rs)
      THEN /\ repos' = rs /\ ri' = j + 1
           /\ Call("check_user_permissions", azure_permissions_url(rs[j + 1]),
                   "api-version" :> "6.0", "check")
           /\ UNCHANGED <<containers, ci, fileVars, exitcode>>
      ELSE azure_for_project(containers, ci)

azure_main ==
    /\ pc = "__main__" /\ prog = "azure_devops_repos_user_list"
    /\ \/ /\ at = "start"
          /\ Call("get_projects",
                  "https://dev.azure.com/" \o ORGANIZATION \o "/_apis/projects",
                  ("api-version" :> "6.0") @@ ("$top" :> 100), "projects")
          /\ UNCHANGED <<pipeVars, repositories, fileVars, exitcode>>
       \/ /\ at = "projects"
          /\ UNCHANGED repositories
          /\ azure_for_project(acc, 0)
       \/ /\ at = "repos"
          /\ UNCHANGED repositories
          /\ azure_for_repo(acc, 0)
       \/ /\ at = "check"
          /\ UNCHANGED repositories
          /\ IF acc
               THEN /\ Call("get_repository_permissions", azure_permissions_url(repos[ri]),
                            "api-version" :> "6.0", "users")
                    /\ UNCHANGED <<pipeVars, fileVars, exitcode>>
               ELSE azure_for_repo(repos, ri)
       \/ /\ at = "users"
          /\ repositories' = [repositories EXCEPT ![AZ] =
                 Append(@, [project |-> containers[ci].name,
                            repository |-> repos[ri].name,
                            project_id |-> containers[ci].id,
                            repo_id |-> repos[ri].id,
                            default_branch |-> repos[ri].default_branch,
                            web_url |-> repos[ri].web_url, users |-> acc])]
          /\ azure_for_repo(repos, ri)
    /\ UNCHANGED <<cfgVars, errors, mainVars, console, exc, clock>>

-----------------------------------------------------------------------------
(* multi_platform_inspector.py: the inspectors.  inspect() runs with       *)
(* pc = "inspect" for the platform valid_inspectors[vi]; a listing method  *)
(* that raises leaves its exception in exc for the except clause.          *)

Inspecting(platform) ==
    /\ prog = "multi_platform_inspector"
    /\ vi \in 1..Len(valid_inspectors)
    /\ valid_inspectors[vi] = platform

\* a listing method that returns an empty list where it should raise
ReturnNothing(msg) ==
    /\ exc' = <<>>
    /\ pc' = "inspect" /\ acc' = <<>> /\ url' = None /\ params' = NoParams /\ at' = at

\* raise Exception(msg) inside a listing method called from inspect()
Raise(msg) ==
    /\ exc' = <<msg>>
    /\ pc' = "inspect" /\ acc' = <<>> /\ url' = None /\ params' = NoParams /\ at' = at

\* inspect() returns to main; its locals are gone
ReturnToMain ==
    /\ pc' = "main" /\ at' = "end"
    /\ url' = None /\ params' = NoParams /\ acc' = <<>>
    /\ containers' = <<>> /\ ci' = 0 /\ repos' = <<>> /\ ri' = 0
    /\ UNCHANGED net

\* an inspect() without the except clause: the exception leaves main
ExceptNothing(platform) ==
    /\ pc' = "traceback"
    /\ UNCHANGED <<at, url, params, acc, pipeVars, repositories, errors, exc, net>>

\* an except clause that records the exception and the platform's failure
ExceptTwice(platform) ==
    /\ errors' = [errors EXCEPT ![platform] =
                     @ \o <<"Error during inspection: " \o exc[1], platform \o " failed">>]
    /\ exc' = <<>>
    /\ ReturnToMain
    /\ UNCHANGED repositories

\* an except clause that also empties the platform's repositories
ExceptClearing(platform) ==
    /\ errors' = [errors EXCEPT ![platform] =
                     Append(@, "Error during inspection: " \o exc[1])]
    /\ exc' = <<>>
    /\ ReturnToMain
    /\ repositories' = [repositories EXCEPT ![platform] = <<>>]

\* except Exception as e: self.errors.append(f"Error during inspection: {str(e)}")
Except(platform) ==
    /\ errors' = [errors EXCEPT ![platform] =
                     Append(@, "Error during inspection: " \o exc[1])]
    /\ exc' = <<>>
    /\ ReturnToMain
    /\ UNCHANGED repositories

MethodFrame == UNCHANGED <<cfgVars, pipeVars, repositories, errors, mainVars, fileVars,
                           exitcode, clock, console>>

InspectFrame == UNCHANGED <<cfgVars, mainVars, fileVars, exitcode, clock, console>>

StatusMessage(what, res) == what \o ": " \o N(res.status_code)

(* BitbucketInspector *)

BitbucketInspector_get_workspaces ==
    /\ pc = "_get_workspaces" /\ Inspecting(BB)
    /\ \E page \in Pages("bb_workspaces") :
         LET res == Response("bb_workspaces", page) IN
         /\ Exchange("_get_workspaces", page)
         /\ IF res.status_code # 200
              THEN Raise(StatusMessage("Error fetching workspaces", res))
              ELSE LET data == res.json
                       values == Get(data, "values", <<>>)
                       workspaces == acc \o [i \in 1..Len(values) |-> values[i].slug]
                       next == Get(data, "next", None)
                   IN  /\ UNCHANGED exc
                       /\ IF next # None THEN Continue(workspaces, next) /\ UNCHANGED params
                                         ELSE Return(workspaces)
    /\ MethodFrame

BitbucketInspector_repo(repo) == [slug |-> repo.slug, full_name |-> repo.full_name]

BitbucketInspector_get_admin_repos ==
    /\ pc = "_get_admin_repos" /\ Inspecting(BB)
    /\ \E page \in Pages("bb_repos") :
         LET res == Response("bb_repos", page) IN
         /\ Exchange("_get_admin_repos", page)
         /\ IF res.status_code # 200
              THEN Raise(StatusMessage("Error fetching repos for " \o containers[ci], res))
              ELSE LET data == res.json
                       values == Get(data, "values", <<>>)
                       rs == acc \o [i \in 1..Len(values) |->
                                       BitbucketInspector_repo(values[i])]
                       next == Get(data, "next", None)
                   IN  /\ UNCHANGED exc
                       /\ IF next # None THEN Continue(rs, next) /\ UNCHANGED params
                                         ELSE Return(rs)
    /\ MethodFrame

\* an entry that names a user without a user name "Unknown"
BitbucketInspector_user_or_unknown(entry) ==
    LET user_info == Get(entry, "user", NoParams) IN
    [username |-> Get(user_info, "username", "Unknown"),
     display_name |-> Get(user_info, "display_name", None),
     permission |-> Get(entry, "permission", None)]

BitbucketInspector_user(entry) ==
    LET user_info == Get(entry, "user", NoParams) IN
    [username |-> Get(user_info, "username", None),
     display_name |-> Get(user_info, "display_name", None),
     permission |-> Get(entry, "permission", None)]

BitbucketInspector_get_repo_users ==
    /\ pc = "_get_repo_users" /\ Inspecting(BB)
    /\ \E page \in Pages("bb_users") :
         LET res == Response("bb_users", page) IN
         /\ Exchange("_get_repo_users", page)
         /\ IF res.status_code # 200
              THEN Return(acc)
              ELSE LET data == res.json
                       values == Get(data, "values", <<>>)
                       users == acc \o [i \in 1..Len(values) |->
                                          BitbucketInspector_user(values[i])]
                       next == Get(data, "next", None)
                   IN  IF next # None THEN Continue(users, next) /\ UNCHANGED params
                                      ELSE Return(users)
    /\ UNCHANGED exc
    /\ MethodFrame

\* for workspace in workspaces: from index i on
BitbucketInspector_for_ws(workspaces, i) ==
    IF i < Len(workspaces)
      THEN /\ containers' = workspaces /\ ci' = i + 1
           /\ Call("_get_admin_repos",
                   "https://api.bitbucket.org/2.0/repositories/" \o workspaces[i + 1],
                   [role |-> "admin", pagelen |-> 50], "repos")
           /\ UNCHANGED <<repos, ri>>
      ELSE ReturnToMain

\* for repo in repos: from index j on
BitbucketInspector_for_repo(rs, j) ==
    IF j < Len(rs)
      THEN /\ repos' = rs /\ ri' = j + 1
           /\ Call("_get_repo_users",
                   "https://api.bitbucket.org/2.0/repositories/" \o containers[ci]
                     \o "/" \o rs[j + 1].slug \o "/permissions-config/users",
                   NoParams, "users")
           /\ UNCHANGED <<containers, ci>>
      ELSE BitbucketInspector_for_ws(containers, ci)

BitbucketInspector_inspect ==
    /\ pc = "inspect" /\ Inspecting(BB)
    /\ \/ /\ exc = <<>> /\ at = "start"
          /\ IF errors[BB] # <<>>
               THEN ReturnToMain
               ELSE /\ Call("_get_workspaces", "https://api.bitbucket.org/2.0/workspaces",
                            NoParams, "workspaces")
                    /\ UNCHANGED pipeVars
          /\ UNCHANGED <<repositories, errors, exc>>
       \/ /\ exc = <<>> /\ at = "workspaces"
          /\ BitbucketInspector_for_ws(acc, 0)
          /\ UNCHANGED <<repositories, errors, exc>>
       \/ /\ exc = <<>> /\ at = "repos"
          /\ BitbucketInspector_for_repo(acc, 0)
          /\ UNCHANGED <<repositories, errors, exc>>
       \/ /\ exc = <<>> /\ at = "users"
          /\ repositories' = [repositories EXCEPT ![BB] =
                 Append(@, [name |-> repos[ri].full_name, workspace |-> containers[ci],
                            slug |-> repos[ri].slug, users |-> acc])]
          /\ BitbucketInspector_for_repo(repos, ri)
          /\ UNCHANGED <<errors, exc>>
       \/ /\ exc # <<>>
          /\ Except(BB)
    /\ InspectFrame

(* GitHubInspector *)

GitHubInspector_get_user_organizations ==
    /\ pc = "_get_user_organizations" /\ Inspecting(GH)
    /\ \E page \in Pages("gh_orgs") :
         LET res == Response("gh_orgs", page) IN
         /\ Exchange("_get_user_organizations", page)
         /\ IF res.status_code # 200
              THEN Raise(StatusMessage("Error fetching organizations", res))
              ELSE LET data == res.json
                       orgs == acc \o [i \in 1..Len(data) |-> data[i].login]
                   IN  /\ UNCHANGED exc
                       /\ IF LinkNext(res) # None
                            THEN Continue(orgs, LinkNext(res)) /\ UNCHANGED params
                            ELSE Return(orgs)
    /\ MethodFrame

\* repo.get('permissions', {}).get('admin', False)
GitHubInspector_is_admin(repo) == Get(Get(repo, "permissions", NoParams), "admin", FALSE)

GitHubInspector_repo(repo) ==
    [name |-> repo.name, full_name |-> repo.full_name, owner |-> repo.owner.login]

GitHubInspector_admin_repos_of(data) ==
    MapFilter(data, [r \in Range(data) |-> GitHubInspector_is_admin(r)],
                    [r \in Range(data) |-> GitHubInspector_repo(r)])

GitHubInspector_get_admin_repos ==
    /\ pc = "_get_admin_repos" /\ Inspecting(GH)
    /\ \E page \in Pages("gh_user_repos") :
         LET res == Response("gh_user_repos", page) IN
         /\ Exchange("_get_admin_repos", page)
         /\ IF res.status_code # 200
              THEN Raise(StatusMessage("Error fetching repos", res))
              ELSE LET rs == acc \o GitHubInspector_admin_repos_of(res.json)
                   IN  /\ UNCHANGED exc
                       /\ IF LinkNext(res) # None
                            THEN Continue(rs, LinkNext(res)) /\ UNCHANGED params
                            ELSE Return(rs)
    /\ MethodFrame

GitHubInspector_get_org_admin_repos ==
    /\ pc = "_get_org_admin_repos" /\ Inspecting(GH)
    /\ \E page \in Pages("gh_org_repos") :
         LET res == Response("gh_org_repos", page) IN
         /\ Exchange("_get_org_admin_repos", page)
         /\ IF res.status_code # 200
              THEN Raise(StatusMessage("Error fetching org repos", res))
              ELSE LET rs == acc \o GitHubInspector_admin_repos_of(res.json)
                   IN  /\ UNCHANGED exc
                       /\ IF LinkNext(res) # None
                            THEN Continue(rs, LinkNext(res)) /\ UNCHANGED params
                            ELSE Return(rs)
    /\ MethodFrame

GitHubInspector_user(user) ==
    [username |-> user.login,
     display_name |-> Get(user, "name", user.login),
     permission |-> Get(user, "role_name", "unknown")]

GitHubInspector_get_repo_collaborators ==
    /\ pc = "_get_repo_collaborators" /\ Inspecting(GH)
    /\ \E page \in Pages("gh_collaborators") :
         LET res == Response("gh_collaborators", page) IN
         /\ Exchange("_get_repo_collaborators", page)
         /\ IF res.status_code # 200
              THEN Return(acc)
              ELSE LET data == res.json
                       users == acc \o [i \in 1..Len(data) |-> GitHubInspector_user(data[i])]
                   IN  IF LinkNext(res) # None
                         THEN Continue(users, LinkNext(res)) /\ UNCHANGED params
                         ELSE Return(users)
    /\ UNCHANGED exc
    /\ MethodFrame

GitHubInspector_collaborators_url(repo) ==
    "https://api.github.com/repos/" \o repo.owner \o "/" \o repo.name \o "/collaborators"

\* for org in orgs: from index i on
GitHubInspector_for_org(orgs, i) ==
    IF i < Len(orgs)
      THEN /\ containers' = orgs /\ ci' = i + 1
           /\ Call("_get_org_admin_repos",
                   "https://api.github.com/orgs/" \o orgs[i + 1] \o "/repos",
                   [type |-> "all", per_page |-> 100], "org_repos")
           /\ UNCHANGED <<repos, ri>>
      ELSE ReturnToMain

\* a loop over the repositories of an organization that are not yet in the report
GitHubInspector_for_unseen_org_repo(rs, j) ==
    LET unseen == IF j = 0
                    THEN SelectSeq(rs, LAMBDA r :
                                     \A i \in 1..Len(repositories[GH]) :
                                        repositories[GH][i].name # r.full_name)
                    ELSE rs
    IN  IF j < Len(unseen)
          THEN /\ repos' = unseen /\ ri' = j + 1
               /\ Call("_get_repo_collaborators",
                       GitHubInspector_collaborators_url(unseen[j + 1]),
                       [per_page |-> 100], "org_users")
               /\ UNCHANGED <<containers, ci>>
          ELSE GitHubInspector_for_org(containers, ci)

\* for repo in org_repos: from index j on
GitHubInspector_for_org_repo(rs, j) ==
    IF j < Len(rs)
      THEN /\ repos' = rs /\ ri' = j + 1
           /\ Call("_get_repo_collaborators", GitHubInspector_collaborators_url(rs[j + 1]),
                   [per_page |-> 100], "org_users")
           /\ UNCHANGED <<containers, ci>>
      ELSE GitHubInspector_for_org(containers, ci)

\* for repo in personal_repos: from index j on, then the organizations
GitHubInspector_for_personal_repo(rs, j) ==
    IF j < Len(rs)
      THEN /\ repos' = rs /\ ri' = j + 1
           /\ Call("_get_repo_collaborators", GitHubInspector_collaborators_url(rs[j + 1]),
                   [per_page |-> 100], "personal_users")
           /\ UNCHANGED <<containers, ci>>
      ELSE /\ Call("_get_user_organizations", "https://api.github.com/user/orgs",
                   NoParams, "orgs")
           /\ UNCHANGED pipeVars

GitHubInspector_inspect ==
    /\ pc = "inspect" /\ Inspecting(GH)
    /\ \/ /\ exc = <<>> /\ at = "start"
          /\ IF errors[GH] # <<>>
               THEN ReturnToMain
               ELSE /\ Call("_get_admin_repos", "https://api.github.com/user/repos",
                            [type |-> "all", sort |-> "updated", per_page |-> 100],
                            "personal_repos")
                    /\ UNCHANGED pipeVars
          /\ UNCHANGED <<repositories, errors, exc>>
       \/ /\ exc = <<>> /\ at = "personal_repos"
          /\ GitHubInspector_for_personal_repo(acc, 0)
          /\ UNCHANGED <<repositories, errors, exc>>
       \/ /\ exc = <<>> /\ at = "personal_users"
          /\ repositories' = [repositories EXCEPT ![GH] =
                 Append(@, [name |-> repos[ri].full_name, owner |-> repos[ri].owner,
                            type |-> "personal", users |-> acc])]
          /\ GitHubInspector_for_personal_repo(repos, ri)
          /\ UNCHANGED <<errors, exc>>
       \/ /\ exc = <<>> /\ at = "orgs"
          /\ GitHubInspector_for_org(acc, 0)
          /\ UNCHANGED <<repositories, errors, exc>>
       \/ /\ exc = <<>> /\ at = "org_repos"
          /\ GitHubInspector_for_org_repo(acc, 0)
          /\ UNCHANGED <<repositories, errors, exc>>
       \/ /\ exc = <<>> /\ at = "org_users"
          /\ repositories' = [repositories EXCEPT ![GH] =
                 Append(@, [name |-> repos[ri].full_name, owner |-> repos[ri].owner,
                            type |-> "organization", organization |-> containers[ci],
                            users |-> acc])]
          /\ GitHubInspector_for_org_repo(repos, ri)
          /\ UNCHANGED <<errors, exc>>
       \/ /\ exc # <<>>
          /\ Except(GH)
    /\ InspectFrame


(* GitLabInspector *)

GitLabInspector_group(group) == [id |-> group.id, name |-> group.name, path |-> group.path]

GitLabInspector_get_user_groups ==
    /\ pc = "_get_user_groups" /\ Inspecting(GL)
    /\ \E page \in Pages("gl_groups") :
         LET res == Response("gl_groups", page) IN
         /\ Exchange("_get_user_groups", page)
         /\ IF res.status_code # 200
              THEN Raise(StatusMessage("Error fetching groups", res))
              ELSE LET data == res.json
                       groups == acc \o [i \in 1..Len(data) |->
                                           GitLabInspector_group(data[i])]
                   IN  /\ UNCHANGED exc
                       /\ IF LinkNext(res) # None
                            THEN Continue(groups, LinkNext(res)) /\ UNCHANGED params
                            ELSE Return(groups)
    /\ MethodFrame

\* project.get('permissions', {}).get('project_access', {}).get('access_level', 0) >= 40
GitLabInspector_is_maintainer(project) ==
    Get(Get(Get(project, "permissions", NoParams), "project_access", NoParams),
        "access_level", 0) >= 40

GitLabInspector_project(project) ==
    [id |-> project.id, name |-> project.name, full_path |-> project.path_with_namespace]

GitLabInspector_projects_of(data) ==
    MapFilter(data, [r \in Range(data) |-> GitLabInspector_is_maintainer(r)],
                    [r \in Range(data) |-> GitLabInspector_project(r)])

GitLabInspector_get_user_projects ==
    /\ pc = "_get_user_projects" /\ Inspecting(GL)
    /\ \E page \in Pages("gl_user_projects") :
         LET res == Response("gl_user_projects", page) IN
         /\ Exchange("_get_user_projects", page)
         /\ IF res.status_code # 200
              THEN Raise(StatusMessage("Error fetching projects", res))
              ELSE LET projects == acc \o GitLabInspector_projects_of(res.json)
                   IN  /\ UNCHANGED exc
                       /\ IF LinkNext(res) # None
                            THEN Continue(projects, LinkNext(res)) /\ UNCHANGED params
                            ELSE Return(projects)
    /\ MethodFrame

GitLabInspector_get_group_projects ==
    /\ pc = "_get_group_projects" /\ Inspecting(GL)
    /\ \E page \in Pages("gl_group_projects") :
         LET res == Response("gl_group_projects", page) IN
         /\ Exchange("_get_group_projects", page)
         /\ IF res.status_code # 200
              THEN Raise(StatusMessage("Error fetching group projects", res))
              ELSE LET projects == acc \o GitLabInspector_projects_of(res.json)
                   IN  /\ UNCHANGED exc
                       /\ IF LinkNext(res) # None
                            THEN Continue(projects, LinkNext(res)) /\ UNCHANGED params
                            ELSE Return(projects)
    /\ MethodFrame

GitLabInspector_permission(access_level) ==
    IF access_level = 50 THEN "owner"
    ELSE IF access_level = 40 THEN "maintainer"
    ELSE IF access_level = 30 THEN "developer"
    ELSE IF access_level = 20 THEN "reporter"
    ELSE IF access_level = 10 THEN "guest"
    ELSE "unknown"

GitLabInspector_user(user) ==
    [username |-> user.username,
     display_name |-> Get(user, "name", user.username),
     permission |-> GitLabInspector_permission(Get(user, "access_level", 0))]

GitLabInspector_get_project_members ==
    /\ pc = "_get_project_members" /\ Inspecting(GL)
    /\ \E page \in Pages("gl_members") :
         LET res == Response("gl_members", page) IN
         /\ Exchange("_get_project_members", page)
         /\ IF res.status_code # 200
              THEN Return(acc)
              ELSE LET data == res.json
                       users == acc \o [i \in 1..Len(data) |-> GitLabInspector_user(data[i])]
                   IN  IF LinkNext(res) # None
                         THEN Continue(users, LinkNext(res)) /\ UNCHANGED params
                         ELSE Return(users)
    /\ UNCHANGED exc
    /\ MethodFrame

GitLabInspector_members_url(project) ==
    GITLAB_URL \o "/api/v4/projects/" \o N(project.id) \o "/members"

\* for group in groups: from index i on
GitLabInspector_for_group(groups, i) ==
    IF i < Len(groups)
      THEN /\ containers' = groups /\ ci' = i + 1
           /\ Call("_get_group_projects",
                   GITLAB_URL \o "/api/v4/groups/" \o N(groups[i + 1].id) \o "/projects",
                   [per_page |-> 100], "group_projects")
           /\ UNCHANGED <<repos, ri>>
      ELSE ReturnToMain

\* for project in group_projects: from index j on
GitLabInspector_for_group_project(ps, j) ==
    IF j < Len(ps)
      THEN /\ repos' = ps /\ ri' = j + 1
           /\ Call("_get_project_members", GitLabInspector_members_url(ps[j + 1]),
                   [per_page |-> 100], "group_users")
           /\ UNCHANGED <<containers, ci>>
      ELSE GitLabInspector_for_group(containers, ci)

\* for project in personal_projects: from index j on, then the groups
GitLabInspector_for_personal_project(ps, j) ==
    IF j < Len(ps)
      THEN /\ repos' = ps /\ ri' = j + 1
           /\ Call("_get_project_members", GitLabInspector_members_url(ps[j + 1]),
                   [per_page |-> 100], "personal_users")
           /\ UNCHANGED <<containers, ci>>
      ELSE /\ Call("_get_user_groups", GITLAB_URL \o "/api/v4/groups",
                   [per_page |-> 100], "groups")
           /\ UNCHANGED pipeVars

GitLabInspector_inspect ==
    /\ pc = "inspect" /\ Inspecting(GL)
    /\ \/ /\ exc = <<>> /\ at = "start"
          /\ IF errors[GL] # <<>>
               THEN ReturnToMain
               ELSE /\ Call("_get_user_projects", GITLAB_URL \o "/api/v4/projects",
                            [membership |-> TRUE, per_page |-> 100], "personal_projects")
                    /\ UNCHANGED pipeVars
          /\ UNCHANGED <<repositories, errors, exc>>
       \/ /\ exc = <<>> /\ at = "personal_projects"
          /\ GitLabInspector_for_personal_project(acc, 0)
          /\ UNCHANGED <<repositories, errors, exc>>
       \/ /\ exc = <<>> /\ at = "personal_users"
          /\ repositories' = [repositories EXCEPT ![GL] =
                 Append(@, [name |-> repos[ri].full_path, id |-> repos[ri].id,
                            type |-> "personal", users |-> acc])]
          /\ GitLabInspector_for_personal_project(repos, ri)
          /\ UNCHANGED <<errors, exc>>
       \/ /\ exc = <<>> /\ at = "groups"
          /\ GitLabInspector_for_group(acc, 0)
          /\ UNCHANGED <<repositories, errors, exc>>
       \/ /\ exc = <<>> /\ at = "group_projects"
          /\ GitLabInspector_for_group_project(acc, 0)
          /\ UNCHANGED <<repositories, errors, exc>>
       \/ /\ exc = <<>> /\ at = "group_users"
          /\ repositories' = [repositories EXCEPT ![GL] =
                 Append(@, [name |-> repos[ri].full_path, id |-> repos[ri].id,
                            type |-> "group", group |-> containers[ci].name,
                            users |-> acc])]
          /\ GitLabInspector_for_group_project(repos, ri)
          /\ UNCHANGED <<errors, exc>>
       \/ /\ exc # <<>>
          /\ Except(GL)
    /\ InspectFrame

(* AzureDevOpsInspector *)

AzureDevOpsInspector_project(project) == [id |-> project.id, name |-> project.name]

AzureDevOpsInspector_get_projects ==
    /\ pc = "_get_projects" /\ Inspecting(AZ)
    /\ \E page \in Pages("az_projects") :
         LET res == Response("az_projects", page) IN
         /\ Exchange("_get_projects", page)
         /\ IF res.status_code # 200
              THEN Raise(StatusMessage("Error fetching projects", res))
              ELSE LET data == res.json
                       value == Get(data, "value", <<>>)
                       projects == acc \o [i \in 1..Len(value) |->
                                             AzureDevOpsInspector_project(value[i])]
                   IN  /\ UNCHANGED exc
                       /\ IF "continuationToken" \in DOMAIN data
                            THEN /\ Continue(projects, url)
                                 /\ params' = WithToken(params, data.continuationToken)
                            ELSE Return(projects)
    /\ MethodFrame

AzureDevOpsInspector_repo(repo) == [id |-> repo.id, name |-> repo.name]

AzureDevOpsInspector_get_repositories ==
    /\ pc = "_get_repositories" /\ Inspecting(AZ)
    /\ \E page \in Pages("az_repos") :
         LET res == Response("az_repos", page) IN
         /\ Exchange("_get_repositories", page)
         /\ IF res.status_code # 200
              THEN Raise(StatusMessage("Error fetching repositories", res))
              ELSE LET value == Get(res.json, "value", <<>>)
                   IN  /\ UNCHANGED exc
                       /\ Return([i \in 1..Len(value) |->
                                    AzureDevOpsInspector_repo(value[i])])
    /\ MethodFrame

AzureDevOpsInspector_is_admin_entry(permission) ==
    /\ Get(permission, "identityType", None) = "user"
    /\ Get(permission, "permission", None) \in {"Administer", "Manage"}

AzureDevOpsInspector_has_admin(value) ==
    \E i \in 1..Len(value) : AzureDevOpsInspector_is_admin_entry(value[i])

AzureDevOpsInspector_check_user_permissions ==
    /\ pc = "_check_user_permissions" /\ Inspecting(AZ)
    /\ \E page \in Pages("az_permissions") :
         LET res == Response("az_permissions", page) IN
         /\ Exchange("_check_user_permissions", page)
         /\ IF res.status_code # 200
              THEN Return(FALSE)
              ELSE Return(AzureDevOpsInspector_has_admin(Get(res.json, "value", <<>>)))
    /\ UNCHANGED exc
    /\ MethodFrame

AzureDevOpsInspector_is_user_entry(permission) ==
    Get(permission, "identityType", None) = "user"

AzureDevOpsInspector_user(permission) ==
    LET identity == Get(permission, "identity", NoParams) IN
    [username |-> Get(identity, "displayName", Get(identity, "uniqueName", "Unknown")),
     display_name |-> Get(identity, "displayName", Get(identity, "uniqueName", "Unknown")),
     permission |-> Get(permission, "permission", "unknown")]

AzureDevOpsInspector_users_of(value) ==
    MapFilter(value, [r \in Range(value) |-> AzureDevOpsInspector_is_user_entry(r)],
                     [r \in Range(value) |-> AzureDevOpsInspector_user(r)])

AzureDevOpsInspector_get_repository_permissions ==
    /\ pc = "_get_repository_permissions" /\ Inspecting(AZ)
    /\ \E page \in Pages("az_permissions") :
         LET res == Response("az_permissions", page) IN
         /\ Exchange("_get_repository_permissions", page)
         /\ IF res.status_code # 200
              THEN Return(<<>>)
              ELSE Return(AzureDevOpsInspector_users_of(Get(res.json, "value", <<>>)))
    /\ UNCHANGED exc
    /\ MethodFrame

AzureDevOpsInspector_permissions_url(repo) ==
    "https://dev.azure.com/" \o ORGANIZATION \o "/_apis/git/repositories/"
      \o repo.id \o "/permissions"

\* for project in projects: from index i on
AzureDevOpsInspector_for_project(projects, i) ==
    IF i < Len(projects)
      THEN /\ containers' = projects /\ ci' = i + 1
           /\ Call("_get_repositories",
                   "https://dev.azure.com/" \o ORGANIZATION \o "/" \o projects[i + 1].id
                     \o "/_apis/git/repositories",
                   "api-version" :> "6.0", "repos")
           /\ UNCHANGED <<repos, ri>>
      ELSE ReturnToMain

\* for repo in repos: from index j on
AzureDevOpsInspector_for_repo(rs, j) ==
    IF j < Len(rs)
      THEN /\ repos' = rs /\ ri' = j + 1
           /\ Call("_check_user_permissions", AzureDevOpsInspector_permissions_url(rs[j + 1]),
                   "api-version" :> "6.0", "check")
           /\ UNCHANGED <<containers, ci>>
      ELSE AzureDevOpsInspector_for_project(containers, ci)

AzureDevOpsInspector_inspect ==
    /\ pc = "inspect" /\ Inspecting(AZ)
    /\ \/ /\ exc = <<>> /\ at = "start"
          /\ IF errors[AZ] # <<>>
               THEN ReturnToMain
               ELSE /\ Call("_get_projects",
                            "https://dev.azure.com/" \o ORGANIZATION \o "/_apis/projects",
                            ("api-version" :> "6.0") @@ ("$top" :> 100), "projects")
                    /\ UNCHANGED pipeVars
          /\ UNCHANGED <<repositories, errors, exc>>
       \/ /\ exc = <<>> /\ at = "projects"
          /\ AzureDevOpsInspector_for_project(acc, 0)
          /\ UNCHANGED <<repositories, errors, exc>>
       \/ /\ exc = <<>> /\ at = "repos"
          /\ AzureDevOpsInspector_for_repo(acc, 0)
          /\ UNCHANGED <<repositories, errors, exc>>
       \/ /\ exc = <<>> /\ at = "check"
          /\ IF acc
               THEN /\ Call("_get_repository_permissions",
                            AzureDevOpsInspector_permissions_url(repos[ri]),
                            "api-version" :> "6.0", "users")
                    /\ UNCHANGED pipeVars
               ELSE AzureDevOpsInspector_for_repo(repos, ri)
          /\ UNCHANGED <<repositories, errors, exc>>
       \/ /\ exc = <<>> /\ at = "users"
          /\ repositories' = [repositories EXCEPT ![AZ] =
                 Append(@, [name |-> containers[ci].name \o "/" \o repos[ri].name,
                            project |-> containers[ci].name,
                            repository |-> repos[ri].name, users |-> acc])]
          /\ AzureDevOpsInspector_for_repo(repos, ri)
          /\ UNCHANGED <<errors, exc>>
       \/ /\ exc # <<>>
          /\ Except(AZ)
    /\ InspectFrame


(* main() of multi_platform_inspector.py and its exporters *)

\* the list of inspectors built the other way round
inspectors_reversed == <<AZ, GL, GH, BB>>

inspectors == <<BB, GH, GL, AZ>>

\* a check that is content with one of the two variables of a platform
MissingEveryCredential(platform) ==
    CASE platform = BB ->
             IF "BITBUCKET_USERNAME" \notin env /\ "BITBUCKET_APP_PASSWORD" \notin env
               THEN <<"Missing BITBUCKET_USERNAME or BITBUCKET_APP_PASSWORD">> ELSE <<>>
      [] platform = GH ->
             IF "GITHUB_TOKEN" \notin env THEN <<"Missing GITHUB_TOKEN">> ELSE <<>>
      [] platform = GL ->
             IF "GITLAB_TOKEN" \notin env THEN <<"Missing GITLAB_TOKEN">> ELSE <<>>
      [] platform = AZ ->
             IF "AZURE_DEVOPS_PAT" \notin env /\ "AZURE_DEVOPS_ORG" \notin env
               THEN <<"Missing AZURE_DEVOPS_PAT or AZURE_DEVOPS_ORG">> ELSE <<>>

\* the check every inspector's __init__ makes on its environment variables
MissingCredentials(platform) ==
    CASE platform = BB ->
             IF "BITBUCKET_USERNAME" \notin env \/ "BITBUCKET_APP_PASSWORD" \notin env
               THEN <<"Missing BITBUCKET_USERNAME or BITBUCKET_APP_PASSWORD">> ELSE <<>>
      [] platform = GH ->
             IF "GITHUB_TOKEN" \notin env THEN <<"Missing GITHUB_TOKEN">> ELSE <<>>
      [] platform = GL ->
             IF "GITLAB_TOKEN" \notin env THEN <<"Missing GITLAB_TOKEN">> ELSE <<>>
      [] platform = AZ ->
             IF "AZURE_DEVOPS_PAT" \notin env \/ "AZURE_DEVOPS_ORG" \notin env
               THEN <<"Missing AZURE_DEVOPS_PAT or AZURE_DEVOPS_ORG">> ELSE <<>>

\* export data that says when it was made
get_export_data_dated(platform) ==
    [platform |-> platform,
     repositories |-> repositories[platform],
     total_repositories |-> Len(repositories[platform]),
     errors |-> errors[platform],
     generated_at |-> N(clock)]

\* export data whose count leaves out the repositories without access entries
get_export_data_counting_shared(platform) ==
    [platform |-> platform,
     repositories |-> repositories[platform],
     total_repositories |->
         Len(SelectSeq(repositories[platform], LAMBDA r : Get(r, "users", <<>>) # <<>>)),
     errors |-> errors[platform]]

get_export_data(platform) ==
    [platform |-> platform,
     repositories |-> repositories[platform],
     total_repositories |-> Len(repositories[platform]),
     errors |-> errors[platform]]

RECURSIVE Join(_)
\* ', '.join(strings)
Join(strings) ==
    IF strings = <<>> THEN ""
    ELSE IF Len(strings) = 1 THEN strings[1]
    ELSE strings[1] \o ", " \o Join(Tail(strings))

print_repo(repo) ==
    << <<"Repository", repo.name>> >>
    \o (IF Get(repo, "users", <<>>) # <<>>
          THEN [i \in 1..Len(repo.users) |->
                  <<repo.users[i].display_name, repo.users[i].username,
                    repo.users[i].permission>>]
          ELSE << <<"No direct users found.">> >>)

print_results(platform) ==
    IF repositories[platform] = <<>>
      THEN << <<platform, "No repositories with admin access found.">> >>
      ELSE << <<platform>> >>
           \o Concat([i \in 1..Len(repositories[platform]) |->
                        print_repo(repositories[platform][i])])
           \o << <<"Total repositories", N(Len(repositories[platform]))>> >>

multi_csv_rows(platform, repo) ==
    IF Get(repo, "users", <<>>) # <<>>
      THEN [i \in 1..Len(repo.users) |->
              <<platform, repo.name,
                CsvCell(repo.users[i].username),
                CsvCell(repo.users[i].display_name),
                CsvCell(repo.users[i].permission)>>]
      ELSE << <<platform, repo.name, "", "", "">> >>

multi_platform_rows(platform_data) ==
    Concat([i \in 1..Len(platform_data.repositories) |->
              multi_csv_rows(platform_data.platform, platform_data.repositories[i])])

multi_export_to_csv(data) ==
    << <<"platform", "repository", "username", "display_name", "permission">> >>
    \o Concat([i \in 1..Len(data) |-> multi_platform_rows(data[i])])

\* a driver whose loop ends at the first inspector that recorded an error
main_until_error ==
    /\ prog = "multi_platform_inspector"
    /\ \/ /\ pc = "start"
          /\ LET errs  == [p \in PlatformSet |-> MissingCredentials(p)]
                 valid == SelectSeq(inspectors, LAMBDA p : errs[p] = <<>>)
                 head  == IF args.quiet THEN <<>>
                          ELSE << <<"Started at", N(clock)>> >>
             IN  /\ errors' = errs
                 /\ IF valid = <<>>
                      THEN /\ console' = console \o head \o
                                (IF args.quiet THEN <<>>
                                 ELSE << <<"No platforms configured. Please check your .env file.">> >>)
                           /\ pc' = "exit" /\ exitcode' = 0
                           /\ UNCHANGED <<at, mainVars>>
                      ELSE /\ console' = console \o head \o
                                (IF args.quiet THEN <<>>
                                 ELSE << <<"Found", N(Len(valid))>> >>)
                           /\ valid_inspectors' = valid /\ vi' = 1
                           /\ total_repositories' = 0 /\ export_data' = <<>>
                           /\ pc' = "inspect" /\ at' = "start"
                           /\ UNCHANGED exitcode
          /\ UNCHANGED fileVars
       \/ /\ pc = "main"
          /\ LET inspector == valid_inspectors[vi]
                 total == total_repositories + Len(repositories[inspector])
                 data  == Append(export_data, get_export_data(inspector))
                 shown == IF args.quiet THEN <<>>
                          ELSE print_results(inspector)
                               \o (IF errors[inspector] # <<>>
                                     THEN << <<"Errors", Join(errors[inspector])>> >>
                                     ELSE <<>>)
             IN  /\ total_repositories' = total
                 /\ export_data' = data
                 /\ UNCHANGED <<valid_inspectors, errors>>
                 /\ IF vi < Len(valid_inspectors) /\ errors[inspector] = <<>>
                      THEN /\ vi' = vi + 1
                           /\ pc' = "inspect" /\ at' = "start"
                           /\ console' = console \o shown
                           /\ UNCHANGED <<fileVars, exitcode>>
                      ELSE /\ console' = console \o shown \o
                                (IF args.quiet THEN <<>>
                                 ELSE << <<"Total repositories with admin access", N(total)>>,
                                         <<"Platforms checked", N(Len(valid_inspectors))>>,
                                         <<"Completed at", N(clock)>> >>)
                           /\ csvfile' = IF args.csv THEN Written(multi_export_to_csv(data))
                                                     ELSE csvfile
                           /\ jsonfile' = IF args.json THEN Written(export_to_json(data))
                                                       ELSE jsonfile
                           /\ pc' = "exit" /\ exitcode' = 0 /\ at' = "end"
                           /\ UNCHANGED vi
    /\ UNCHANGED <<cfgVars, url, params, acc, pipeVars, repositories, exc, clock, net>>

main ==
    /\ prog = "multi_platform_inspector"
    /\ \/ /\ pc = "start"
          /\ LET errs  == [p \in PlatformSet |-> MissingCredentials(p)]
                 valid == SelectSeq(inspectors, LAMBDA p : errs[p] = <<>>)
                 head  == IF args.quiet THEN <<>>
                          ELSE << <<"Started at", N(clock)>> >>
             IN  /\ errors' = errs
                 /\ IF valid = <<>>
                      THEN /\ console' = console \o head \o
                                (IF args.quiet THEN <<>>
                                 ELSE << <<"No platforms configured. Please check your .env file.">> >>)
                           /\ pc' = "exit" /\ exitcode' = 0
                           /\ UNCHANGED <<at, mainVars>>
                      ELSE /\ console' = console \o head \o
                                (IF args.quiet THEN <<>>
                                 ELSE << <<"Found", N(Len(valid))>> >>)
                           /\ valid_inspectors' = valid /\ vi' = 1
                           /\ total_repositories' = 0 /\ export_data' = <<>>
                           /\ pc' = "inspect" /\ at' = "start"
                           /\ UNCHANGED exitcode
          /\ UNCHANGED fileVars
       \/ /\ pc = "main"
          /\ LET inspector == valid_inspectors[vi]
                 total == total_repositories + Len(repositories[inspector])
                 data  == Append(export_data, get_export_data(inspector))
                 shown == IF args.quiet THEN <<>>
                          ELSE print_results(inspector)
                               \o (IF errors[inspector] # <<>>
                                     THEN << <<"Errors", Join(errors[inspector])>> >>
                                     ELSE <<>>)
             IN  /\ total_repositories' = total
                 /\ export_data' = data
                 /\ UNCHANGED <<valid_inspectors, errors>>
                 /\ IF vi < Len(valid_inspectors)
                      THEN /\ vi' = vi + 1
                           /\ pc' = "inspect" /\ at' = "start"
                           /\ console' = console \o shown
                           /\ UNCHANGED <<fileVars, exitcode>>
                      ELSE /\ console' = console \o shown \o
                                (IF args.quiet THEN <<>>
                                 ELSE << <<"Total repositories with admin access", N(total)>>,
                                         <<"Platforms checked", N(Len(valid_inspectors))>>,
                                         <<"Completed at", N(clock)>> >>)
                           /\ csvfile' = IF args.csv THEN Written(multi_export_to_csv(data))
                                                     ELSE csvfile
                           /\ jsonfile' = IF args.json THEN Written(export_to_json(data))
                                                       ELSE jsonfile
                           /\ pc' = "exit" /\ exitcode' = 0 /\ at' = "end"
                           /\ UNCHANGED vi
    /\ UNCHANGED <<cfgVars, url, params, acc, pipeVars, repositories, exc, clock, net>>

-----------------------------------------------------------------------------

Programs == {"bitbucket_repos_user_list", "github_repos_user_list",
             "gitlab_repos_user_list", "azure_devops_repos_user_list",
             "multi_platform_inspector"}

\* the environments a program is started in: every variable it reads set, or not
EnvChoices(p) ==
    CASE p = "bitbucket_repos_user_list" ->
             {{"BITBUCKET_USERNAME", "BITBUCKET_APP_PASSWORD"}, {"BITBUCKET_USERNAME"}, {}}
      [] p = "github_repos_user_list" ->
             {{"GITHUB_USERNAME", "GITHUB_TOKEN"}, {"GITHUB_TOKEN"}, {}}
      [] p = "gitlab_repos_user_list" -> {{"GITLAB_TOKEN"}, {}}
      [] p = "azure_devops_repos_user_list" ->
             {{"AZURE_DEVOPS_PAT", "AZURE_DEVOPS_ORG"}, {"AZURE_DEVOPS_PAT"}, {}}
      [] p = "multi_platform_inspector" ->
             {{"BITBUCKET_USERNAME", "BITBUCKET_APP_PASSWORD", "GITHUB_TOKEN",
               "GITLAB_TOKEN", "AZURE_DEVOPS_PAT", "AZURE_DEVOPS_ORG"},
              {"BITBUCKET_USERNAME", "BITBUCKET_APP_PASSWORD",
               "GITLAB_TOKEN", "AZURE_DEVOPS_PAT", "AZURE_DEVOPS_ORG"},
              {"BITBUCKET_USERNAME", "GITHUB_TOKEN", "AZURE_DEVOPS_ORG"},
              {}}

\* the command lines: both exports and the console, or neither
ArgChoices == {[csv |-> TRUE, json |-> TRUE, quiet |-> FALSE],
               [csv |-> FALSE, json |-> FALSE, quiet |-> TRUE]}

FirstRun == [no |-> 1, mode |-> "live", tape |-> <<>>, before |-> <<>>]

\* a server that has seen no request and has budget left to hand out
Server(budget) == [log |-> <<>>, calls |-> 0, n |-> 0, left |-> budget, cursors |-> 0]

\* the state of a process that was just started
Started ==
    /\ pc = "start" /\ at = "start"
    /\ url = None /\ params = NoParams /\ acc = <<>>
    /\ containers = <<>> /\ ci = 0 /\ repos = <<>> /\ ri = 0
    /\ repositories = [p \in PlatformSet |-> <<>>]
    /\ errors = [p \in PlatformSet |-> <<>>]
    /\ valid_inspectors = <<>> /\ vi = 0
    /\ export_data = <<>> /\ total_repositories = 0
    /\ console = <<>> /\ csvfile = NotWritten /\ jsonfile = NotWritten
    /\ exitcode = -1 /\ exc = <<>>        \* -1: the process has not exited

Init ==
    /\ prog \in Programs
    /\ env \in EnvChoices(prog)
    /\ args \in ArgChoices
    /\ Started
    /\ clock = 0
    /\ net = Server(MaxBudget)
    /\ run = FirstRun

Next ==
    \/ bitbucket_credential_check
    \/ bitbucket_main
    \/ bitbucket_get_workspaces
    \/ bitbucket_get_admin_repos
    \/ bitbucket_get_repo_users
    \/ github_credential_check
    \/ github_main
    \/ github_get_admin_repos
    \/ github_get_user_organizations
    \/ github_get_org_admin_repos
    \/ github_get_repo_collaborators
    \/ gitlab_credential_check
    \/ gitlab_main
    \/ gitlab_get_user_projects
    \/ gitlab_get_user_groups
    \/ gitlab_get_group_projects
    \/ gitlab_get_project_members
    \/ azure_credential_check
    \/ azure_main
    \/ azure_get_projects
    \/ azure_get_repositories
    \/ azure_check_user_permissions
    \/ azure_get_repository_permissions
    \/ main
    \/ BitbucketInspector_inspect
    \/ BitbucketInspector_get_workspaces
    \/ BitbucketInspector_get_admin_repos
    \/ BitbucketInspector_get_repo_users
    \/ GitHubInspector_inspect
    \/ GitHubInspector_get_admin_repos
    \/ GitHubInspector_get_user_organizations
    \/ GitHubInspector_get_org_admin_repos
    \/ GitHubInspector_get_repo_collaborators
    \/ GitLabInspector_inspect
    \/ GitLabInspector_get_user_projects
    \/ GitLabInspector_get_user_groups
    \/ GitLabInspector_get_group_projects
    \/ GitLabInspector_get_project_members
    \/ AzureDevOpsInspector_inspect
    \/ AzureDevOpsInspector_get_projects
    \/ AzureDevOpsInspector_get_repositories
    \/ AzureDevOpsInspector_check_user_permissions
    \/ AzureDevOpsInspector_get_repository_permissions

Spec == Init /\ [][Next]_vars

-----------------------------------------------------------------------------
(* Two runs, one after the other: the second is started after the first    *)
(* has exited, later on the clock, in the same environment and with the    *)
(* same command line, and the server serves what it served in the first.   *)

Outcome == [repositories |-> repositories, errors |-> errors,
            export_data |-> export_data, csvfile |-> csvfile, jsonfile |-> jsonfile,
            exitcode |-> exitcode]

Modes ==
    {"replay"} \cup
    (IF /\ prog = "multi_platform_inspector"
        /\ \E i \in 1..Len(valid_inspectors) : valid_inspectors[i] = GH
        /\ errors[GH] = <<>>
       THEN {"github_401"} ELSE {})

Rerun ==
    /\ pc = "exit" /\ run.no = 1
    /\ \E mode \in Modes :
         run' = [no |-> 2, mode |-> mode, tape |-> net.log, before |-> <<Outcome>>]
    /\ pc' = "start" /\ at' = "start"
    /\ url' = None /\ params' = NoParams /\ acc' = <<>>
    /\ containers' = <<>> /\ ci' = 0 /\ repos' = <<>> /\ ri' = 0
    /\ repositories' = [p \in PlatformSet |-> <<>>]
    /\ errors' = [p \in PlatformSet |-> <<>>]
    /\ valid_inspectors' = <<>> /\ vi' = 0
    /\ export_data' = <<>> /\ total_repositories' = 0
    /\ console' = <<>> /\ csvfile' = NotWritten /\ jsonfile' = NotWritten
    /\ exitcode' = -1 /\ exc' = <<>>
    /\ clock' = clock + 1
    /\ net' = Server(0)
    /\ UNCHANGED <<prog, env, args>>

\* runs that have their credentials and export both files
InitConfigured ==
    /\ prog \in Programs
    /\ env \in {e \in EnvChoices(prog) : \A f \in EnvChoices(prog) : f \subseteq e}
    /\ args = [csv |-> TRUE, json |-> TRUE, quiet |-> FALSE]
    /\ Started
    /\ clock = 0
    /\ net = Server(MaxBudget - 1)
    /\ run = FirstRun

NextTwice == Next \/ Rerun

SpecTwice == InitConfigured /\ [][NextTwice]_vars

-----------------------------------------------------------------------------
(* One run of a process that is never suspended for ever: the interpreter  *)
(* executes the next statement whenever there is one.                      *)

SpecFair == InitConfigured /\ [][Next]_vars /\ WF_vars(Next)

-----------------------------------------------------------------------------
(* Properties.  The log of the server is the history the properties read:  *)
(* every request with the function that sent it, the number of the call it *)
(* belongs to, its URL and parameters, and the page that answered it.      *)

EntriesOf(c) == SelectSeq(net.log, LAMBDA e : e.call = c)

Succeeded(entries) == \A i \in 1..Len(entries) : entries[i].page.status = 200

Last(s) == s[Len(s)]

\* the listing a request belongs to
Listing(e) ==
    CASE e.platform = BB /\ e.fn \in {"get_workspaces", "_get_workspaces"} -> "workspaces"
      [] e.platform = BB /\ e.fn \in {"get_admin_repos", "_get_admin_repos"} -> "repositories"
      [] e.platform = BB /\ e.fn \in {"get_repo_users", "_get_repo_users"} -> "users"
      [] e.platform = GH /\ e.fn \in {"get_user_organizations",
                                      "_get_user_organizations"} -> "organizations"
      [] e.platform = GH /\ e.fn \in {"get_admin_repos", "_get_admin_repos",
                                      "get_org_admin_repos", "_get_org_admin_repos"}
             -> "github repositories"
      [] e.platform = GH /\ e.fn \in {"get_repo_collaborators",
                                      "_get_repo_collaborators"} -> "collaborators"
      [] e.platform = GL /\ e.fn \in {"get_user_groups", "_get_user_groups"} -> "groups"
      [] e.platform = GL /\ e.fn \in {"get_user_projects", "_get_user_projects",
                                      "get_group_projects", "_get_group_projects"}
             -> "gitlab projects"
      [] e.platform = GL /\ e.fn \in {"get_project_members",
                                      "_get_project_members"} -> "members"
      [] e.platform = AZ /\ e.fn \in {"get_projects", "_get_projects"} -> "azure projects"
      [] e.platform = AZ /\ e.fn \in {"get_repositories", "_get_repositories"}
             -> "azure repositories"
      [] OTHER -> "permissions"

Paginated == {"workspaces", "repositories", "users", "organizations",
              "github repositories", "collaborators", "groups", "gitlab projects",
              "members", "azure projects"}

\* the access-level predicate of a listing on a record as the server sent it
HasAdminFlag(r) ==
    /\ "permissions" \in DOMAIN r
    /\ "admin" \in DOMAIN r.permissions
    /\ r.permissions.admin = TRUE

HasMaintainerLevel(r) ==
    /\ "permissions" \in DOMAIN r
    /\ "project_access" \in DOMAIN r.permissions
    /\ "access_level" \in DOMAIN r.permissions.project_access
    /\ r.permissions.project_access.access_level >= 40

Admitted(listing, r) ==
    CASE listing = "github repositories" -> HasAdminFlag(r)
      [] listing = "gitlab projects" -> HasMaintainerLevel(r)
      [] OTHER -> TRUE

\* what identifies a record as the server sent it
SentKey(listing, r) ==
    CASE listing \in {"workspaces", "repositories"} -> r.slug
      [] listing = "users" ->
             IF "user" \in DOMAIN r /\ "username" \in DOMAIN r.user
               THEN r.user.username ELSE None
      [] listing \in {"organizations", "collaborators"} -> r.login
      [] listing = "github repositories" -> r.name
      [] listing = "members" -> r.username
      [] OTHER -> r.id

\* what identifies an element of the list a listing returned
ReturnedKey(listing, x) ==
    CASE listing \in {"workspaces", "organizations"} -> x
      [] listing = "repositories" -> x.slug
      [] listing \in {"users", "collaborators", "members"} -> x.username
      [] listing = "github repositories" -> x.name
      [] OTHER -> x.id

RECURSIVE SentKeys(_, _)
\* the keys of the admitted records of a sequence of records, in order
SentKeys(listing, values) ==
    IF values = <<>> THEN <<>>
    ELSE (IF Admitted(listing, Head(values))
            THEN <<SentKey(listing, Head(values))>> ELSE <<>>)
         \o SentKeys(listing, Tail(values))

\* the keys of the admitted records of the pages of entries, page after page
PageKeys(entries) ==
    Concat([i \in 1..Len(entries) |->
              SentKeys(Listing(entries[i]), entries[i].page.values)])

\* a listing function has just returned its list, which is in acc
JustReturned ==
    /\ pc = Driver /\ exc = <<>> /\ at \notin {"start", "end"}
    /\ net.log # <<>> /\ Last(net.log).call = net.calls

\* C1: when a paginated listing returns after a chain of successful pages, the list
\* it returns is the admitted records of page 1, then those of page 2, and so on,
\* each in page order: nothing dropped, repeated, merged or reordered.
C1_ListingIsConcatenationOfPages ==
    (/\ JustReturned
     /\ Listing(Last(net.log)) \in Paginated
     /\ Succeeded(EntriesOf(net.calls)))
    => LET entries == EntriesOf(net.calls)
           listing == Listing(Last(net.log))
       IN  [i \in 1..Len(acc) |-> ReturnedKey(listing, acc[i])] = PageKeys(entries)

\* a listing returned after the chain cursor -> cursor -> none with records on two pages
C1_Witness ==
    /\ JustReturned
    /\ Listing(Last(net.log)) \in Paginated
    /\ LET entries == EntriesOf(net.calls) IN
         /\ Len(entries) = 3 /\ Succeeded(entries)
         /\ entries[1].page.cursor # None /\ entries[2].page.cursor # None
         /\ entries[3].page.cursor = None
         /\ entries[1].page.values # <<>> /\ entries[2].page.values # <<>>
         /\ Len(acc) = 2

\* C2: once a listing has received a 200 page without a continuation cursor, it sends
\* no further request: that page is the last request of its call.
C2_NoRequestAfterLastPage ==
    \A i \in 1..Len(net.log) :
        (net.log[i].page.status = 200 /\ net.log[i].page.cursor = None)
        => \A j \in (i + 1)..Len(net.log) : net.log[j].call # net.log[i].call

\* the Bitbucket workspace listing got a first page with records and no next, returned
\* after that one request, and the run went on to the repository listing
C2_Witness ==
    /\ Len(net.log) >= 2
    /\ net.log[1].platform = BB /\ Listing(net.log[1]) = "workspaces"
    /\ net.log[1].page.status = 200 /\ net.log[1].page.cursor = None
    /\ net.log[1].page.values # <<>>
    /\ Len(EntriesOf(net.log[1].call)) = 1
    /\ Listing(net.log[2]) = "repositories"


\* the run is over: the process has exited normally and both exports are written
Ended == pc = "exit" /\ exitcode = 0 /\ csvfile.written /\ jsonfile.written

\* every request of a call but its last was answered 200 with a continuation cursor
LoopsExitOnLastPage ==
    \A i \in 1..Len(net.log) :
        (net.log[i].page.status # 200 \/ net.log[i].page.cursor = None)
        => \A j \in (i + 1)..Len(net.log) : net.log[j].call # net.log[i].call

\* C3: against a server whose listings are finite chains of pages, a run sends
\* finitely many requests and eventually ends with its report exported; every
\* pagination loop stops at the first page without a cursor or the first non-200.
C3_RunEnds == <>[]Ended /\ []LoopsExitOnLastPage

\* a run ended after a listing of two pages and a listing stopped by a non-200
C3_Witness ==
    /\ Ended
    /\ \E i \in 1..Len(net.log) :
         /\ net.log[i].page.status = 200 /\ net.log[i].page.cursor # None
         /\ i < Len(net.log) /\ net.log[i + 1].call = net.log[i].call
    /\ \E i \in 1..Len(net.log) : net.log[i].page.status # 200


\* the process has exited from the end of its driver
Exited == pc = "exit" /\ exitcode = 0

\* the requests of the listings named in listings that went to platform
ListingEntries(platform, listings) ==
    SelectSeq(net.log, LAMBDA e : e.platform = platform /\ Listing(e) \in listings)

\* a listing method of an inspector raises on a non-200 page and loses the records of
\* the pages it had read; a listing function of a script returns them
Kept(e) == prog # "multi_platform_inspector" \/ Succeeded(EntriesOf(e.call))

KeptEntries(platform, listings) ==
    SelectSeq(ListingEntries(platform, listings), Kept)

ReportKeys(platform, field) ==
    [i \in 1..Len(repositories[platform]) |-> repositories[platform][i][field]]

RECURSIVE CallHeads(_)
\* the first request of every call in log, in order
CallHeads(log) ==
    IF log = <<>> THEN <<>>
    ELSE LET rest == CallHeads(SubSeq(log, 1, Len(log) - 1)) IN
         IF Len(log) = 1 \/ log[Len(log) - 1].call # Last(log).call
           THEN Append(rest, Last(log)) ELSE rest

\* the repositories with permissions.admin true among the records of entries, in order
AdminRepositories(entries) ==
    Concat([i \in 1..Len(entries) |->
              SelectSeq(entries[i].page.values, HasAdminFlag)])

ReportedFullNames ==
    [i \in 1..Len(repositories[GH]) |->
        IF prog = "multi_platform_inspector" THEN repositories[GH][i].name
                                             ELSE repositories[GH][i].full_name]

CollaboratorsUrl(r) ==
    "https://api.github.com/repos/" \o r.owner.login \o "/" \o r.name \o "/collaborators"

\* the URLs the collaborator listings were started with, in order
CollaboratorRequests ==
    LET heads == SelectSeq(CallHeads(net.log),
                           LAMBDA e : e.platform = GH /\ Listing(e) = "collaborators")
    IN  [i \in 1..Len(heads) |-> heads[i].url]

\* the report and the collaborator listings are exactly those of the repositories rs
GitHubReportIs(rs) ==
    /\ ReportedFullNames = [i \in 1..Len(rs) |-> rs[i].full_name]
    /\ CollaboratorRequests = [i \in 1..Len(rs) |-> CollaboratorsUrl(rs[i])]

Lookups ==
    SelectSeq(net.log, LAMBDA e : e.platform = AZ /\ e.fn \in {"check_user_permissions",
                                                              "_check_user_permissions"})

IsAdminEntry(p) ==
    /\ "identityType" \in DOMAIN p /\ p.identityType = "user"
    /\ "permission" \in DOMAIN p /\ p.permission \in {"Administer", "Manage"}

\* the lookup was answered 200 with an entry of a user with Administer or Manage
Grants(e) ==
    /\ e.page.status = 200
    /\ \E i \in 1..Len(e.page.values) : IsAdminEntry(e.page.values[i])

\* the name of the repository a permissions request is about: that of the repository
\* record with the id in the URL, which the repository listing was sent before
RepositoryOf(e) ==
    LET sent == UNION {Range(net.log[i].page.values) :
                         i \in {j \in 1..Len(net.log) :
                                  /\ net.log[j].platform = AZ
                                  /\ Listing(net.log[j]) = "azure repositories"}}
    IN  (CHOOSE r \in sent :
            e.url = "https://dev.azure.com/org/_apis/git/repositories/" \o r.id
                      \o "/permissions").name

\* the request that follows the i-th request of the run
Following(e) ==
    LET i == CHOOSE k \in 1..Len(net.log) : net.log[k] = e IN
    IF i < Len(net.log) THEN <<net.log[i + 1]>> ELSE <<>>

\* the one entry (identityType = user, permission = Administer) of a lookup
OnlyAdminister(e) ==
    /\ e.page.status = 200 /\ Len(e.page.values) = 1
    /\ IsAdminEntry(e.page.values[1]) /\ e.page.values[1].permission = "Administer"

\* the access entries of the i-th reported repository are the one entry of lookup e
OneEntry(i, e) ==
    LET users == repositories[AZ][i].users
        identity == e.page.values[1].identity
    IN  /\ Len(users) = 1
        /\ users[1].permission = "Administer"
        /\ users[1].username = identity.displayName
        /\ IF prog = "multi_platform_inspector"
             THEN users[1].display_name = identity.displayName
             ELSE users[1].email = identity.uniqueName

\* the report holds exactly the repositories whose lookup granted access, in order
ReportIsGranted ==
    LET granted == SelectSeq(Lookups, Grants) IN
    ReportKeys(AZ, "repository") = [i \in 1..Len(granted) |-> RepositoryOf(granted[i])]

\* C6 as stated: at the end of a run the Azure DevOps report holds exactly the
\* repositories whose permissions lookup was answered 200 with a user entry of
\* Administer or Manage, and a repository whose lookup returned exactly one entry
\* (user, Administer) is reported with exactly that one normalized entry.
C6_GrantedRepositoryReportedWithItsEntry ==
    Exited =>
      /\ ReportIsGranted
      /\ LET granted == SelectSeq(Lookups, Grants) IN
         \A i \in 1..Len(granted) : OnlyAdminister(granted[i]) => OneEntry(i, granted[i])

\* C6 amended: as C6, the access entries being that one normalized entry provided the
\* permissions endpoint answers the access-entry request, which is a second request,
\* as it answered the lookup.
C6_GrantedRepositoryReportedWithEntryOfSameAnswer ==
    Exited =>
      /\ ReportIsGranted
      /\ LET granted == SelectSeq(Lookups, Grants) IN
         \A i \in 1..Len(granted) :
            (/\ OnlyAdminister(granted[i])
             /\ Following(granted[i]) # <<>>
             /\ Following(granted[i])[1].page = granted[i].page)
            => OneEntry(i, granted[i])

\* a run ended with a repository whose lookup and access-entry request were both
\* answered with one Administer entry of a user, and a repository that was refused
C6_Witness ==
    /\ Exited
    /\ Len(repositories[AZ]) = 1 /\ Len(repositories[AZ][1].users) = 1
    /\ \E i \in 1..Len(Lookups) :
         /\ OnlyAdminister(Lookups[i])
         /\ Following(Lookups[i])[1].page = Lookups[i].page
    /\ \E i \in 1..Len(Lookups) : ~Grants(Lookups[i])

\* C7: a repository is admitted only on the credential's own standing: every reported
\* Azure DevOps repository had a lookup with an Administer or Manage entry whose
\* identity is the credential's; entries of other principals admit nothing.
C7_AdmittedOnOwnPermissionOnly ==
    Exited =>
      LET granted == SelectSeq(Lookups, Grants) IN
      \A i \in 1..Len(repositories[AZ]) :
         \E k \in 1..Len(granted[i].page.values) :
            LET p == granted[i].page.values[k] IN
            /\ IsAdminEntry(p)
            /\ "identity" \in DOMAIN p /\ "uniqueName" \in DOMAIN p.identity
            /\ p.identity.uniqueName = CurrentUser


-----------------------------------------------------------------------------
(* The exports. *)

\* the aggregate report as the CSV export is handed it: (first columns, repository)
Report ==
    IF prog = "multi_platform_inspector"
      THEN Concat([k \in 1..Len(export_data) |->
                     [i \in 1..Len(export_data[k].repositories) |->
                        [platform |-> export_data[k].platform,
                         repo |-> export_data[k].repositories[i]]]])
      ELSE [i \in 1..Len(repositories[Platform]) |->
              [platform |-> Platform, repo |-> repositories[Platform][i]]]

\* the columns of the file, and those among them that describe an access entry
Columns ==
    CASE prog = "bitbucket_repos_user_list" ->
           <<"workspace", "repository", "username", "display_name", "permission">>
      [] prog = "github_repos_user_list" ->
           <<"repository", "type", "owner", "username", "display_name", "permission">>
      [] prog = "gitlab_repos_user_list" ->
           <<"project", "type", "group", "username", "display_name", "permission",
             "access_level">>
      [] prog = "azure_devops_repos_user_list" ->
           <<"project", "repository", "username", "email", "permission">>
      [] OTHER ->
           <<"platform", "repository", "username", "display_name", "permission">>

EntryColumns == {"username", "display_name", "email", "permission", "access_level"}

\* what the report calls the repository in its column "repository" (or "project")
RepositoryCell(r) ==
    CASE prog = "bitbucket_repos_user_list" -> r.repo.full_name
      [] prog = "github_repos_user_list" -> r.repo.full_name
      [] prog = "gitlab_repos_user_list" -> r.repo.full_path
      [] prog = "azure_devops_repos_user_list" -> r.repo.repository
      [] OTHER -> r.repo.name

EntriesIn(r) == IF "users" \in DOMAIN r.repo THEN r.repo.users ELSE <<>>

RowCount(r) == Max(1, Len(EntriesIn(r)))

RECURSIVE RowsBefore(_, _)
\* the number of data rows of the repositories before the i-th
RowsBefore(report, i) ==
    IF i <= 1 THEN 0 ELSE RowsBefore(report, i - 1) + RowCount(report[i - 1])

\* the text the column c shows of the access entry
Shown(entry, c) ==
    IF c \notin DOMAIN entry THEN ""
    ELSE IF c = "access_level" THEN N(entry[c])
    ELSE IF entry[c] = None THEN ""
    ELSE entry[c]

\* the row is about repository r
RowOf(row, r) ==
    \E c \in 1..Len(Columns) :
       /\ Columns[c] \in {"repository", "project"} /\ c <= 2
       /\ Columns[c] = "project" => prog = "gitlab_repos_user_list"
       /\ row[c] = RepositoryCell(r)

\* C8: a CSV file that was written holds the header and then, for each repository of
\* the report in order, max(1, n) rows for its n access entries: one row with every
\* entry column empty when n = 0, and otherwise the n entries in order, none empty.
C8_CsvRowsPerRepository ==
    csvfile.written =>
      LET rows == Tail(csvfile.content) IN
      /\ csvfile.content[1] = Columns
      /\ Len(rows) = RowsBefore(Report, Len(Report) + 1)
      /\ \A i \in 1..Len(Report) :
            LET r == Report[i]
                n == Len(EntriesIn(r))
                first == RowsBefore(Report, i)
            IN  /\ \A j \in 1..RowCount(r) :
                      /\ Len(rows[first + j]) = Len(Columns)
                      /\ RowOf(rows[first + j], r)
                /\ n = 0 => \A c \in 1..Len(Columns) :
                               Columns[c] \in EntryColumns => rows[first + 1][c] = ""
                /\ n > 0 => \A j \in 1..n :
                               /\ \A c \in 1..Len(Columns) :
                                     Columns[c] \in EntryColumns =>
                                        rows[first + j][c] = Shown(EntriesIn(r)[j], Columns[c])
                               /\ \E c \in 1..Len(Columns) :
                                     Columns[c] \in EntryColumns /\ rows[first + j][c] # ""

\* a file was written for a report with a repository without access entries and a
\* repository with some
C8_Witness ==
    /\ csvfile.written
    /\ \E i, j \in 1..Len(Report) :
          /\ EntriesIn(Report[i]) = <<>>
          /\ EntriesIn(Report[j]) # <<>>
    /\ Len(csvfile.content) > 2

\* C9: a second run that is sent the responses of the first, one for one, ends with
\* the report, the export data and the JSON file of the first; only the clock differs.
C9_SameResponsesSameJson ==
    (run.no = 2 /\ run.mode = "replay" /\ pc = "exit") =>
       /\ repositories = run.before[1].repositories
       /\ export_data = run.before[1].export_data
       /\ jsonfile = run.before[1].jsonfile

\* a second run of the inspector ended, at a later time, with a JSON file of four
\* platforms that lists a repository
C9_Witness ==
    /\ prog = "multi_platform_inspector"
    /\ run.no = 2 /\ run.mode = "replay" /\ pc = "exit" /\ clock = 1
    /\ Len(export_data) = Len(inspectors)
    /\ jsonfile.written /\ jsonfile.content # <<>>
    /\ \E p \in PlatformSet : repositories[p] # <<>>
    /\ Len(net.log) = Len(run.tape)

\* C10: a run of the inspector in which GitHub answers its first request with 401,
\* every other platform answering as in a run where GitHub succeeded, ends with one
\* error and no repository for GitHub, with the repositories and errors of the other
\* platforms as in that run, and with the summary printed and both files written.
C10_GitHubFailureIsContained ==
    (run.no = 2 /\ run.mode = "github_401" /\ pc = "exit") =>
       /\ errors[GH] = <<"Error during inspection: Error fetching repos: 401">>
       /\ repositories[GH] = <<>>
       /\ \A p \in PlatformSet \ {GH} :
             /\ repositories[p] = run.before[1].repositories[p]
             /\ errors[p] = run.before[1].errors[p]
       /\ exitcode = 0
       /\ \E i \in 1..Len(console) : console[i] = <<"Platforms checked", "4">>
       /\ csvfile.written /\ jsonfile.written
       /\ Len(export_data) = Len(valid_inspectors)
       /\ Len(Of(net.log, GH)) = 1

\* such a run ended, after a run in which GitHub and another platform reported a
\* repository
C10_Witness ==
    /\ run.no = 2 /\ run.mode = "github_401" /\ pc = "exit"
    /\ run.before[1].repositories[GH] # <<>>
    /\ run.before[1].errors[GH] = <<>>
    /\ \E p \in PlatformSet \ {GH} : repositories[p] # <<>>
    /\ errors[GH] # <<>>

-----------------------------------------------------------------------------
(* The inspector alone, run a second time against a server on which one    *)
(* platform fails from some request on and the others answer as before.    *)

InitMulti ==
    /\ prog = "multi_platform_inspector"
    /\ env \in EnvChoices(prog)
    /\ args = [csv |-> TRUE, json |-> TRUE, quiet |-> FALSE]
    /\ Started
    /\ clock = 0
    /\ net = Server(MaxBudget - 1)
    /\ run = FirstRun

NextMulti ==
    \/ main
    \/ BitbucketInspector_inspect
    \/ BitbucketInspector_get_workspaces
    \/ BitbucketInspector_get_admin_repos
    \/ BitbucketInspector_get_repo_users
    \/ GitHubInspector_inspect
    \/ GitHubInspector_get_admin_repos
    \/ GitHubInspector_get_user_organizations
    \/ GitHubInspector_get_org_admin_repos
    \/ GitHubInspector_get_repo_collaborators
    \/ GitLabInspector_inspect
    \/ GitLabInspector_get_user_projects
    \/ GitLabInspector_get_user_groups
    \/ GitLabInspector_get_group_projects
    \/ GitLabInspector_get_project_members
    \/ AzureDevOpsInspector_inspect
    \/ AzureDevOpsInspector_get_projects
    \/ AzureDevOpsInspector_get_repositories
    \/ AzureDevOpsInspector_check_user_permissions
    \/ AzureDevOpsInspector_get_repository_permissions

\* the run is repeated with platform victim failing from a request on that was
\* answered 200 in the first run
RerunFailing ==
    /\ pc = "exit" /\ run.no = 1
    /\ \E victim \in Range(valid_inspectors), code \in FailCodes :
         \E k \in 1..Len(Of(net.log, victim)) :
            /\ Of(net.log, victim)[k].page.status = 200
            /\ run' = [no |-> 2, mode |-> "failing", tape |-> net.log,
                       before |-> <<Outcome>>,
                       victim |-> victim, failat |-> k, code |-> code]
    /\ pc' = "start" /\ at' = "start"
    /\ url' = None /\ params' = NoParams /\ acc' = <<>>
    /\ containers' = <<>> /\ ci' = 0 /\ repos' = <<>> /\ ri' = 0
    /\ repositories' = [p \in PlatformSet |-> <<>>]
    /\ errors' = [p \in PlatformSet |-> <<>>]
    /\ valid_inspectors' = <<>> /\ vi' = 0
    /\ export_data' = <<>> /\ total_repositories' = 0
    /\ console' = <<>> /\ csvfile' = NotWritten /\ jsonfile' = NotWritten
    /\ exitcode' = -1 /\ exc' = <<>>
    /\ clock' = clock + 1
    /\ net' = Server(0)
    /\ UNCHANGED <<prog, env, args>>

SpecFailing == InitMulti /\ [][NextMulti \/ RerunFailing]_vars

\* the place of a platform in the fixed order of the inspectors
Place(platform) == CHOOSE i \in 1..Len(inspectors) : inspectors[i] = platform

\* the requests of log that went to platform, and their answers
Exchanged(log, platform) ==
    LET es == Of(log, platform) IN
    [i \in 1..Len(es) |-> [fn |-> es[i].fn, url |-> es[i].url,
                           params |-> es[i].params, page |-> es[i].page]]

\* the second run, with a failing platform, has reached its end
FailingRunEnded == run.no = 2 /\ run.mode = "failing" /\ pc = "exit"

\* C11: when a platform fails during its inspection, at any of its requests, every
\* platform after it in the order of the inspectors that has credentials is still
\* inspected, sends the requests it sent and reports the repositories and errors it
\* reported in the run in which that platform did not fail.
C11_LaterPlatformsUnaffected ==
    FailingRunEnded =>
       \A q \in PlatformSet :
          (MissingCredentials(q) = <<>> /\ Place(q) > Place(run.victim)) =>
             /\ \E i \in 1..Len(export_data) : export_data[i].platform = q
             /\ Exchanged(net.log, q) = Exchanged(run.tape, q)
             /\ repositories[q] = run.before[1].repositories[q]
             /\ errors[q] = run.before[1].errors[q]

\* such a run ended: the failing platform lost a repository it had reported, and a
\* platform after it reported one in both runs
C11_Witness ==
    /\ FailingRunEnded
    /\ Len(repositories[run.victim]) < Len(run.before[1].repositories[run.victim])
    /\ \E q \in PlatformSet :
          /\ Place(q) > Place(run.victim)
          /\ repositories[q] # <<>>
          /\ Of(net.log, q) # <<>>

-----------------------------------------------------------------------------
(* Failures in the inspector. *)

\* the listing methods that raise on a non-200 response
RaisingMethods ==
    {"_get_workspaces", "_get_admin_repos", "_get_user_organizations",
     "_get_org_admin_repos", "_get_user_groups", "_get_user_projects",
     "_get_group_projects", "_get_projects", "_get_repositories"}

\* the methods that fetch the access entries of one repository
AccessMethods ==
    {"_get_repo_users", "_get_repo_collaborators", "_get_project_members",
     "_get_repository_permissions"}

Raised(e) == e.fn \in RaisingMethods /\ e.page.status # 200

\* the platform's inspection is over and main has taken its export data
Exported(platform) == \E i \in 1..Len(export_data) : export_data[i].platform = platform

ExportOf(platform) ==
    export_data[CHOOSE i \in 1..Len(export_data) : export_data[i].platform = platform]

\* the number of repositories the platform had appended: inspect() appends one
\* after each fetch of access entries
Appended(platform) ==
    Cardinality({e.call : e \in {x \in Range(Of(net.log, platform)) :
                                    x.fn \in AccessMethods}})

\* the names the records sent for the Bitbucket workspace listing carry
WorkspacesSent ==
    UNION {{r.slug : r \in Range(e.page.values)} :
             e \in {x \in Range(net.log) : x.fn = "_get_workspaces"}}

\* the messages the failure of request e may be recorded with
MessagesOf(e) ==
    LET what == CASE e.fn = "_get_workspaces" -> {"Error fetching workspaces"}
                  [] e.fn = "_get_admin_repos" /\ e.platform = BB ->
                         {"Error fetching repos for " \o w : w \in WorkspacesSent}
                  [] e.fn = "_get_admin_repos" -> {"Error fetching repos"}
                  [] e.fn = "_get_user_organizations" -> {"Error fetching organizations"}
                  [] e.fn = "_get_org_admin_repos" -> {"Error fetching org repos"}
                  [] e.fn = "_get_user_groups" -> {"Error fetching groups"}
                  [] e.fn = "_get_user_projects" -> {"Error fetching projects"}
                  [] e.fn = "_get_group_projects" -> {"Error fetching group projects"}
                  [] e.fn = "_get_projects" -> {"Error fetching projects"}
                  [] OTHER -> {"Error fetching repositories"}
    IN  {"Error during inspection: " \o w \o ": " \o N(e.page.status) : w \in what}

\* the failure that ended the inspection of the platform was the platform's last
\* request, and the platform is exported with the repositories it had and one error
RaiseKeepsPartial(platform) ==
    LET es == Of(net.log, platform) IN
    \A i \in 1..Len(es) :
       Raised(es[i]) =>
          /\ i = Len(es)
          /\ Exported(platform) =>
               /\ Len(ExportOf(platform).repositories) = Appended(platform)
               /\ ExportOf(platform).repositories = repositories[platform]
               /\ ExportOf(platform).total_repositories = Appended(platform)
               /\ Len(ExportOf(platform).errors) = 1
               /\ ExportOf(platform).errors[1] \in MessagesOf(es[i])

\* no step from the raise to the export takes a repository away or changes one
RepositoriesOnlyGrow ==
    \A p \in PlatformSet :
       /\ Len(repositories'[p]) >= Len(repositories[p])
       /\ \A i \in 1..Len(repositories[p]) : repositories'[p][i] = repositories[p][i]

\* C12: in the inspector, when a container or repository listing raises on a non-200
\* response after k repositories of the platform were appended, the platform's export
\* entry holds exactly those k repositories, unchanged and in order, and exactly one
\* error string, which names the failure; no request of the platform follows.
C12_RaiseKeepsPartialResults ==
    /\ [](prog = "multi_platform_inspector" => \A p \in PlatformSet : RaiseKeepsPartial(p))
    /\ [][run' = run => RepositoriesOnlyGrow]_vars

\* a run ended in which a platform's listing raised after one repository was appended
C12_Witness ==
    /\ prog = "multi_platform_inspector" /\ Exited
    /\ \E p \in PlatformSet :
          /\ Of(net.log, p) # <<>> /\ Raised(Last(Of(net.log, p)))
          /\ Exported(p) /\ Len(ExportOf(p).repositories) >= 1
          /\ Len(errors[p]) = 1

-----------------------------------------------------------------------------
(* Credentials. *)

\* the environment variables a platform's credential is made of
Credential(platform) ==
    CASE platform = BB -> {"BITBUCKET_USERNAME", "BITBUCKET_APP_PASSWORD"}
      [] platform = GH ->
             IF prog = "multi_platform_inspector"
               THEN {"GITHUB_TOKEN"} ELSE {"GITHUB_USERNAME", "GITHUB_TOKEN"}
      [] platform = GL -> {"GITLAB_TOKEN"}
      [] platform = AZ -> {"AZURE_DEVOPS_PAT", "AZURE_DEVOPS_ORG"}

Configured(platform) == Credential(platform) \subseteq env

MissingMessage(platform) ==
    CASE platform = BB -> "Missing BITBUCKET_USERNAME or BITBUCKET_APP_PASSWORD"
      [] platform = GH -> "Missing GITHUB_TOKEN"
      [] platform = GL -> "Missing GITLAB_TOKEN"
      [] platform = AZ -> "Missing AZURE_DEVOPS_PAT or AZURE_DEVOPS_ORG"

\* the message is in the exported data, in an entry of the platform, or on the console
Reported(platform, message) ==
    \/ \E i \in 1..Len(jsonfile.content) :
          /\ jsonfile.content[i].platform = platform
          /\ message \in Range(jsonfile.content[i].errors)
    \/ \E i \in 1..Len(console) :
          \E c \in 1..Len(console[i]) : console[i][c] = message

\* C13: at the end of a run of the inspector with the console and the exports on, a
\* platform without credentials was not inspected and, when another platform is
\* configured, its 'Missing ...' error is in the exported data or on the console.
C13_MissingCredentialsSkippedAndReported ==
    (prog = "multi_platform_inspector" /\ Exited /\ ~args.quiet) =>
       \A p \in PlatformSet :
          ~Configured(p) =>
             /\ Of(net.log, p) = <<>> /\ repositories[p] = <<>>
             /\ (\E q \in PlatformSet : Configured(q)) => Reported(p, MissingMessage(p))

\* the scripts: the platform of a script is the one it was written for
ScriptPlatform ==
    CASE prog = "bitbucket_repos_user_list" -> BB
      [] prog = "github_repos_user_list" -> GH
      [] prog = "gitlab_repos_user_list" -> GL
      [] OTHER -> AZ

ListingFunctions ==
    {"get_workspaces", "get_admin_repos", "get_repo_users", "get_user_organizations",
     "get_org_admin_repos", "get_repo_collaborators", "get_user_groups",
     "get_user_projects", "get_group_projects", "get_project_members",
     "get_projects", "get_repositories", "check_user_permissions",
     "get_repository_permissions"}

\* C14: no request is ever sent for a platform whose credentials are absent: a script
\* never enters a listing function and exits with status 1 and the message that
\* names the variables; the inspector never inspects the platform.
C14_NoRequestWithoutCredentials ==
    IF prog = "multi_platform_inspector"
      THEN \A p \in PlatformSet :
              ~Configured(p) =>
                 /\ Of(net.log, p) = <<>>
                 /\ ~(pc \notin {"start", "main", "exit"} /\ Platform = p)
      ELSE ~Configured(ScriptPlatform) =>
              /\ net.log = <<>> /\ net.calls = 0
              /\ pc \notin ListingFunctions /\ pc # "__main__"
              /\ pc = "exit" => exitcode = 1 /\ Len(console) = 1

\* a script has exited with status 1 for want of one variable, having sent nothing
C14_Witness ==
    /\ prog = "bitbucket_repos_user_list" /\ env = {"BITBUCKET_USERNAME"}
    /\ pc = "exit" /\ exitcode = 1 /\ net.log = <<>>

-----------------------------------------------------------------------------
(* Failures in the scripts. *)

Script == prog # "multi_platform_inspector"

\* the number of calls of function fn the log shows
Calls(fn) == Cardinality({e.call : e \in {x \in Range(net.log) : x.fn = fn}})

\* the number of admitted records the listings named in listings were sent
Sent(listings) == Len(PageKeys(ListingEntries(ScriptPlatform, listings)))

\* a listing function of a script returned after its last request was answered non-200
ReturnedAfterFailure ==
    /\ Script /\ JustReturned
    /\ Last(net.log).page.status # 200
    /\ Last(net.log).fn # "check_user_permissions"

\* all requests of the call but the last, which failed
PagesBefore(entries) == SubSeq(entries, 1, Len(entries) - 1)

\* the script went through every container and repository its listings returned
PipelineWentOn ==
    CASE prog = "bitbucket_repos_user_list" ->
           /\ Calls("get_admin_repos") = Sent({"workspaces"})
           /\ Calls("get_repo_users") = Sent({"repositories"})
           /\ ReportKeys(BB, "slug") = PageKeys(ListingEntries(BB, {"repositories"}))
      [] prog = "github_repos_user_list" ->
           /\ Calls("get_org_admin_repos") = Sent({"organizations"})
           /\ Calls("get_repo_collaborators") = Sent({"github repositories"})
           /\ ReportKeys(GH, "name") = PageKeys(ListingEntries(GH, {"github repositories"}))
      [] prog = "gitlab_repos_user_list" ->
           /\ Calls("get_group_projects") = Sent({"groups"})
           /\ Calls("get_project_members") = Sent({"gitlab projects"})
           /\ ReportKeys(GL, "id") = PageKeys(ListingEntries(GL, {"gitlab projects"}))
      [] OTHER ->
           /\ Calls("get_repositories") = Sent({"azure projects"})
           /\ Calls("check_user_permissions") = Sent({"azure repositories"})

\* C15: in the scripts, a listing whose page k is answered non-200 sends no further
\* request and returns the records of pages 1..k-1, neither an empty list nor an
\* exception; the run goes on with them and with the other containers and
\* repositories, to its end.
C15_ScriptListingReturnsPartial ==
    /\ ReturnedAfterFailure =>
          LET entries == EntriesOf(net.calls)
              listing == Listing(Last(net.log))
          IN  /\ Succeeded(PagesBefore(entries))
              /\ exc = <<>>
              /\ IF listing = "permissions"
                   THEN acc = <<>>
                   ELSE [i \in 1..Len(acc) |-> ReturnedKey(listing, acc[i])]
                          = PageKeys(PagesBefore(entries))
    /\ (Script /\ Exited) => PipelineWentOn
    /\ (Script /\ Configured(ScriptPlatform) /\ pc = "exit") => exitcode = 0

\* a script ended after a listing that failed on its second page, and the record of the
\* first page was listed in its turn
C15_Witness ==
    /\ Script /\ Exited
    /\ \E i \in 2..Len(net.log) :
          /\ net.log[i].page.status # 200
          /\ net.log[i - 1].call = net.log[i].call
          /\ net.log[i - 1].page.values # <<>>
          /\ i < Len(net.log)

-----------------------------------------------------------------------------
(* Failures that are surfaced. *)

\* the requests of the platform that were answered with a non-200 status
Failures(platform) ==
    {i \in 1..Len(net.log) :
        net.log[i].platform = platform /\ net.log[i].page.status # 200}

\* the console lines that report a status: "<what>: <status>"
StatusLines == {i \in 1..Len(console) : Len(console[i]) = 2}

\* the number of failures of the platform's requests the run has surfaced: a
\* script's status lines; in the inspector the platform's error entries and the
\* exception inspect() is about to catch
Surfaced(platform) ==
    IF Script
      THEN Cardinality(StatusLines)
      ELSE Len(errors[platform])
             + (IF pc \notin {"start", "main", "exit"} /\ Platform = platform
                  THEN Len(exc) ELSE 0)

\* C16: every response with a non-2xx status is surfaced, as a log line or as an
\* error entry: none is dropped silently, the access-entry listings and the Azure
\* permissions lookup of the inspector included.
C16_EveryFailureSurfaced ==
    \A p \in PlatformSet : Cardinality(Failures(p)) <= Surfaced(p)

\* C17: in the inspector no failure escapes the driver: once inspect() has returned
\* and main has taken the platform's export data, every failed request of the
\* platform is recorded in its errors, and main goes on to the remaining platforms
\* and ends with status 0.
C17_FailuresRecordedNotRaised ==
    prog = "multi_platform_inspector" =>
       /\ \A p \in PlatformSet :
             Exported(p) => Cardinality(Failures(p)) <= Len(ExportOf(p).errors)
       /\ (pc = "exit" /\ valid_inspectors # <<>>) =>
             /\ exitcode = 0
             /\ \A p \in Range(valid_inspectors) : Exported(p)

-----------------------------------------------------------------------------
(* The requests of a paginated listing. *)

\* the listings paginated with next-page links: a 'next' value in the body
\* (Bitbucket) or a Link header (GitHub, GitLab)
LinkStyle == Paginated \ {"azure projects"}

NextUrl(e) == "https://next/" \o e.page.cursor

\* C18: in a listing paginated with links the request for page k+1 is exactly the
\* next URL page k gave: the query parameters of the first request are not sent
\* with it again.
C18_NextUrlRequestedVerbatim ==
    \A i \in 2..Len(net.log) :
       (net.log[i].call = net.log[i - 1].call /\ Listing(net.log[i]) \in LinkStyle) =>
          /\ net.log[i].url = NextUrl(net.log[i - 1])
          /\ net.log[i].params = NoParams

-----------------------------------------------------------------------------
(* The requests of the Azure DevOps project listing. *)

ProjectListing(e) == Listing(e) = "azure projects"

\* the first request of the call that request i of the log belongs to
FirstOfCall(i) == CHOOSE j \in 1..i :
                     /\ net.log[j].call = net.log[i].call
                     /\ \A k \in 1..(j - 1) : net.log[k].call # net.log[i].call

ProjectParams == {"api-version", "$top"}

\* C19: the first request of the Azure DevOps project listing carries api-version
\* and $top and no continuation token; the request after a page goes to the same URL
\* with continuationToken equal to the token of that page, the most recent one, and
\* with api-version and $top as they were in the first request.
C19_TokenOfLatestPage ==
    \A i \in 1..Len(net.log) :
       ProjectListing(net.log[i]) =>
          LET e == net.log[i]
              first == net.log[FirstOfCall(i)]
          IN  /\ DOMAIN first.params = ProjectParams
              /\ first.params["api-version"] = "6.0" /\ first.params["$top"] = 100
              /\ FirstOfCall(i) < i =>
                    /\ net.log[i - 1].call = e.call
                    /\ net.log[i - 1].page.status = 200
                    /\ e.url = first.url
                    /\ DOMAIN e.params = ProjectParams \cup {"continuationToken"}
                    /\ e.params["continuationToken"] = net.log[i - 1].page.cursor
                    /\ \A k \in ProjectParams : e.params[k] = first.params[k]

\* a third request of one project listing was sent, with the token of the second
\* page, which differs from the token of the first
C19_Witness ==
    \E i \in 3..Len(net.log) :
       /\ ProjectListing(net.log[i])
       /\ net.log[i - 2].call = net.log[i].call
       /\ net.log[i].params["continuationToken"] = net.log[i - 1].page.cursor
       /\ net.log[i - 1].page.cursor # net.log[i - 2].page.cursor

-----------------------------------------------------------------------------
(* The fields of an access entry. *)

\* the access entries of the reports
AccessEntries ==
    UNION {UNION {Range(repositories[p][i].users) : i \in 1..Len(repositories[p])} :
             p \in PlatformSet}

Normalized == {"username", "display_name", "permission"}

\* the fields an access entry of the program has
EntryFields ==
    CASE prog = "gitlab_repos_user_list" -> Normalized \cup {"access_level"}
      [] prog = "azure_devops_repos_user_list" -> {"username", "email", "permission"}
      [] OTHER -> Normalized

\* C20 as stated: every access entry in every aggregate report, of the scripts and
\* of the inspector, has exactly the fields username, display_name and permission.
C20_AccessEntryNormalized ==
    \A u \in AccessEntries : DOMAIN u = Normalized

\* C20: every access entry of a report has exactly username, display_name and
\* permission in the inspector and in the Bitbucket and GitHub scripts; in the GitLab
\* script it has access_level as well, and in the Azure DevOps script it has exactly
\* username, email and permission.
C20_AccessEntryFields ==
    \A u \in AccessEntries : DOMAIN u = EntryFields

\* the GitLab script has reported a project with a member
C20_Witness ==
    /\ prog = "gitlab_repos_user_list"
    /\ \E i \in 1..Len(repositories[GL]) : repositories[GL][i].users # <<>>

-----------------------------------------------------------------------------
(* The permission of a GitLab member. *)

\* the access levels GitLab defines, with their names, and their order
LevelNames == (50 :> "owner") @@ (40 :> "maintainer") @@ (30 :> "developer")
                @@ (20 :> "reporter") @@ (10 :> "guest")

RankOf == ("owner" :> 5) @@ ("maintainer" :> 4) @@ ("developer" :> 3)
            @@ ("reporter" :> 2) @@ ("guest" :> 1)

\* the levels a member record is tried with: the five known ones and others
Levels == {0, 5, 10, 15, 20, 30, 35, 40, 45, 50, 60}

\* member records: with each level, and without one
MemberRecords ==
    {[username |-> "u1", name |-> "U1", access_level |-> l] : l \in Levels}
      \cup {[username |-> "u1", name |-> "U1"], [username |-> "u1"]}

PermissionOf(level) == IF level \in DOMAIN LevelNames THEN LevelNames[level] ELSE "unknown"

\* C21: a GitLab member record is given the permission owner for access_level 50,
\* maintainer for 40, developer for 30, reporter for 20, guest for 10 and unknown
\* for every other level and for an absent one; the names keep the order of the five
\* levels; the script and the inspector give the same permission for every record,
\* and the entries in their reports carry the permission of the record sent.
C21_GitLabPermissionOfLevel ==
    /\ \A r \in MemberRecords :
          /\ gitlab_user(r).permission = PermissionOf(Get(r, "access_level", 0))
          /\ GitLabInspector_user(r).permission = gitlab_user(r).permission
    /\ \A a, b \in DOMAIN LevelNames :
          a > b => RankOf[gitlab_permission(a)] > RankOf[gitlab_permission(b)]
    /\ \A i \in 1..Len(net.log) :
          LET e == net.log[i] IN
          (Listing(e) = "members" /\ e.page.status = 200) =>
             \A j \in 1..Len(e.page.values) :
                LET r == e.page.values[j] IN
                /\ gitlab_user(r).permission = PermissionOf(Get(r, "access_level", 0))
                /\ GitLabInspector_user(r).permission = gitlab_user(r).permission
    /\ \A i \in 1..Len(repositories[GL]) :
          \A j \in 1..Len(repositories[GL][i].users) :
             repositories[GL][i].users[j].permission
                \in {PermissionOf(l) : l \in Levels}

\* a GitLab report holds an owner and a member whose record carried no level
C21_Witness ==
    \E i \in 1..Len(repositories[GL]) :
       /\ \E j \in 1..Len(repositories[GL][i].users) :
             repositories[GL][i].users[j].permission = "owner"
       /\ \E j \in 1..Len(repositories[GL][i].users) :
             repositories[GL][i].users[j].permission = "unknown"

-----------------------------------------------------------------------------
(* Bitbucket: no filter in the client. *)

\* request i is the first of its call
IsFirstOfCall(i) == \A k \in 1..(i - 1) : net.log[k].call # net.log[i].call

\* the first request of every Bitbucket repository listing carries role=admin
FirstCarriesRole ==
    \A i \in 1..Len(net.log) :
       (net.log[i].platform = BB /\ Listing(net.log[i]) = "repositories"
          /\ IsFirstOfCall(i)) =>
          /\ "role" \in DOMAIN net.log[i].params
          /\ net.log[i].params.role = "admin"

-----------------------------------------------------------------------------
(* The order of the report. *)

\* the containers of a platform and the listing that returns them
ContainerListing(platform) ==
    CASE platform = BB -> "workspaces"
      [] platform = GH -> "organizations"
      [] platform = GL -> "groups"
      [] OTHER -> "azure projects"

\* the container records the platform's container listing was sent, in order
ContainerRecords(platform) ==
    LET es == ListingEntries(platform, {ContainerListing(platform)}) IN
    Concat([i \in 1..Len(es) |-> es[i].page.values])

\* the name of a container in the report, and the URL its repositories are listed at
ContainerName(platform, c) ==
    CASE platform = BB -> c.slug
      [] platform = GH -> c.login
      [] OTHER -> c.name

ContainerUrl(platform, c) ==
    CASE platform = BB -> "https://api.bitbucket.org/2.0/repositories/" \o c.slug
      [] platform = GH -> "https://api.github.com/orgs/" \o c.login \o "/repos"
      [] platform = GL -> GITLAB_URL \o "/api/v4/groups/" \o N(c.id) \o "/projects"
      [] OTHER -> "https://dev.azure.com/" \o ORGANIZATION \o "/" \o c.id
                    \o "/_apis/git/repositories"

\* a request of the repository listing of one container
OfContainer(e) ==
    \/ e.platform = BB /\ Listing(e) = "repositories"
    \/ e.fn \in {"get_org_admin_repos", "_get_org_admin_repos", "get_group_projects",
                 "_get_group_projects", "get_repositories", "_get_repositories"}

\* a request of the listing of the personal repositories
OfPerson(e) ==
    \/ e.platform = GH /\ e.fn \in {"get_admin_repos", "_get_admin_repos"}
    \/ e.fn \in {"get_user_projects", "_get_user_projects"}

\* the first requests of the platform's container repository listings, in order
ContainerHeads(platform) ==
    SelectSeq(CallHeads(net.log), LAMBDA e : e.platform = platform /\ OfContainer(e))

\* the name a repository record has in the report
SentName(platform, r) ==
    CASE platform = BB -> r.slug
      [] platform = GH -> r.full_name
      [] platform = GL -> N(r.id)
      [] OTHER -> r.name

ReportedName(platform, x) ==
    CASE platform = BB -> x.slug
      [] platform = GH -> IF Script THEN x.full_name ELSE x.name
      [] platform = GL -> N(x.id)
      [] OTHER -> x.repository

\* the names of the records the requests in entries were sent, in order
SentNames(platform, entries) ==
    Concat([i \in 1..Len(entries) |->
              [j \in 1..Len(entries[i].page.values) |->
                 SentName(platform, entries[i].page.values[j])]])

RECURSIVE IsSubSeq(_, _)
\* a is b with some elements left out
IsSubSeq(a, b) ==
    IF a = <<>> THEN TRUE
    ELSE IF b = <<>> THEN FALSE
    ELSE IF Head(a) = Head(b) THEN IsSubSeq(Tail(a), Tail(b))
    ELSE IsSubSeq(a, Tail(b))

Personal(x) == "type" \in DOMAIN x /\ x.type = "personal"

\* the container a report entry names
ContainerField(platform, x) ==
    CASE platform = BB -> x.workspace
      [] platform = GH -> x.organization
      [] platform = GL -> x.group
      [] OTHER -> x.project

\* the place of the container of a report entry among the containers sent
PlaceOfContainer(platform, x) ==
    LET cs == ContainerRecords(platform) IN
    CHOOSE k \in 0..Len(cs) :
       IF \E i \in 1..Len(cs) : ContainerName(platform, cs[i]) = ContainerField(platform, x)
         THEN k > 0 /\ ContainerName(platform, cs[k]) = ContainerField(platform, x)
         ELSE k = 0

\* the report entries of the platform that are personal, and those of the k-th container
PersonalPart(platform) == SelectSeq(repositories[platform], Personal)

ContainerPart(platform, k) ==
    SelectSeq(repositories[platform],
              LAMBDA x : ~Personal(x) /\ PlaceOfContainer(platform, x) = k)

Names(platform, part) == [i \in 1..Len(part) |-> ReportedName(platform, part[i])]

\* the report of the platform follows the pipeline
ReportInPipelineOrder(platform) ==
    LET report == repositories[platform]
        heads == ContainerHeads(platform)
        cs == ContainerRecords(platform)
    IN  \* the containers are gone through in the order they were returned
        /\ Len(heads) <= Len(cs)
        /\ \A k \in 1..Len(heads) : heads[k].url = ContainerUrl(platform, cs[k])
        \* the entries are grouped by container, in that order, after the personal ones
        /\ \A i, j \in 1..Len(report) :
              i < j =>
                 /\ ~(~Personal(report[i]) /\ Personal(report[j]))
                 /\ (~Personal(report[i]) /\ ~Personal(report[j])) =>
                       /\ PlaceOfContainer(platform, report[i]) > 0
                       /\ PlaceOfContainer(platform, report[i])
                            <= PlaceOfContainer(platform, report[j])
        \* inside a container the entries are in the order of its repository listing
        /\ \A k \in 1..Len(cs) :
              ContainerPart(platform, k) # <<>> =>
                 /\ k <= Len(heads)
                 /\ IsSubSeq(Names(platform, ContainerPart(platform, k)),
                             SentNames(platform, EntriesOf(heads[k].call)))
        /\ IsSubSeq(Names(platform, PersonalPart(platform)),
                    SentNames(platform, SelectSeq(Of(net.log, platform), OfPerson)))

\* Bitbucket Cloud, GitHub, GitLab, Azure DevOps
PlatformOrder == (BB :> 1) @@ (GH :> 2) @@ (GL :> 3) @@ (AZ :> 4)

InPlatformOrder(data) ==
    \A i, j \in 1..Len(data) :
       i < j => PlatformOrder[data[i].platform] < PlatformOrder[data[j].platform]

\* C23: the report follows the pipeline: the containers are listed for repositories in
\* the order the container listing returned them, the report entries are grouped by
\* container in that order and are inside a container in the order of its repository
\* listing, for GitHub and GitLab the personal entries precede all others, and the
\* inspector's export has its platform entries in the order Bitbucket Cloud, GitHub,
\* GitLab, Azure DevOps.
C23_ReportInPipelineOrder ==
    /\ \A p \in PlatformSet : ReportInPipelineOrder(p)
    /\ prog = "multi_platform_inspector" =>
          /\ InPlatformOrder(export_data)
          /\ jsonfile.written => InPlatformOrder(jsonfile.content)

\* the inspector has exported two platforms, and GitHub with a personal repository
\* followed by one of an organization
C23_Witness ==
    /\ prog = "multi_platform_inspector" /\ Exited
    /\ Len(export_data) >= 2 /\ jsonfile.written
    /\ Len(repositories[GH]) = 2
    /\ Personal(repositories[GH][1]) /\ ~Personal(repositories[GH][2])

-----------------------------------------------------------------------------
(* The order of the pipeline steps. *)

\* the functions that fetch the access entries of one repository
AccessFunctions ==
    AccessMethods \cup {"get_repo_users", "get_repo_collaborators",
                        "get_project_members", "get_repository_permissions"}

\* the URL of the first request of the call that request e belongs to
HeadUrl(e) == EntriesOf(e.call)[1].url

\* the URL at which the access entries of record r are fetched; e is the request of
\* the repository listing that was sent r
AccessUrl(platform, e, r) ==
    CASE platform = BB -> HeadUrl(e) \o "/" \o r.slug \o "/permissions-config/users"
      [] platform = GH -> "https://api.github.com/repos/" \o r.owner.login \o "/"
                            \o r.name \o "/collaborators"
      [] platform = GL -> GITLAB_URL \o "/api/v4/projects/" \o N(r.id) \o "/members"
      [] OTHER -> "https://dev.azure.com/" \o ORGANIZATION \o "/_apis/git/repositories/"
                    \o r.id \o "/permissions"

RepositoryListing(platform) ==
    CASE platform = BB -> "repositories"
      [] platform = GH -> "github repositories"
      [] platform = GL -> "gitlab projects"
      [] OTHER -> "azure repositories"

\* the access URLs of the records the platform's repository listings returned to the
\* driver and that pass the listing's filter, in order
ListedUrls(platform) ==
    LET listing == RepositoryListing(platform)
        es == KeptEntries(platform, {listing})
    IN  Concat([i \in 1..Len(es) |->
                  LET admitted == SelectSeq(es[i].page.values,
                                            LAMBDA r : Admitted(listing, r))
                  IN  [j \in 1..Len(admitted) |-> AccessUrl(platform, es[i], admitted[j])]])

\* the URLs of the calls among heads, in order
Urls(heads) == [i \in 1..Len(heads) |-> heads[i].url]

\* the first requests of the permission lookups, and those that granted access
LookupHeads == SelectSeq(CallHeads(net.log), LAMBDA e : e \in Range(Lookups))

\* the access URLs of the repositories that passed the platform's filter, in order
PassedUrls(platform) ==
    IF platform = AZ THEN Urls(SelectSeq(LookupHeads, Grants))
    ELSE ListedUrls(platform)

\* the first requests of the platform's access-entry listings, in order
AccessHeads(platform) ==
    SelectSeq(CallHeads(net.log),
              LAMBDA e : e.platform = platform /\ e.fn \in AccessFunctions)

IsPrefix(a, b) == Len(a) <= Len(b) /\ SubSeq(b, 1, Len(a)) = a

\* the access entries are requested for the repositories that passed the filter, in
\* their order, and for no other; the report has no more entries than such listings
FilterBeforeAccess(platform) ==
    /\ IsPrefix(Urls(AccessHeads(platform)), PassedUrls(platform))
    /\ platform = AZ => IsPrefix(Urls(LookupHeads), ListedUrls(AZ))
    /\ Len(repositories[platform]) <= Len(AccessHeads(platform))

\* a repository is appended when the access-entry listing of the latest call has
\* returned, with the list it returned
AppendAfterAccess(platform) ==
    Len(repositories'[platform]) > Len(repositories[platform]) =>
       /\ Len(repositories'[platform]) = Len(repositories[platform]) + 1
       /\ pc = Driver /\ exc = <<>>
       /\ net.log # <<>>
       /\ Last(net.log).platform = platform /\ Last(net.log).fn \in AccessFunctions
       /\ Last(net.log).call = net.calls
       /\ Len(repositories'[platform]) = Len(AccessHeads(platform))
       /\ Last(repositories'[platform]).users = acc

\* C24: the steps of the pipeline happen in order: the requests for access entries
\* go to the repositories that passed the filter, in the order they were listed, and
\* to no repository that failed it; a repository is appended to the report only when
\* its access-entry listing has returned.
C24_PipelineInOrder ==
    /\ [](\A p \in PlatformSet : FilterBeforeAccess(p))
    /\ [][\A p \in PlatformSet : AppendAfterAccess(p)]_vars

\* the Azure DevOps report holds a repository, and a repository that failed the
\* filter was listed before it
C24_Witness ==
    /\ Len(repositories[AZ]) = 1
    /\ Len(LookupHeads) >= 2 /\ ~Grants(LookupHeads[1])
    /\ Len(AccessHeads(AZ)) = 1

-----------------------------------------------------------------------------
(* A repository listing of one container that fails. *)

\* the requests of the platform's container repository listings answered non-200
FailedOfContainer(platform) ==
    SelectSeq(Of(net.log, platform), LAMBDA e : OfContainer(e) /\ e.page.status # 200)

\* every container the platform's container listing returned had its repositories listed
EveryContainerListed(platform) ==
    Len(ContainerHeads(platform)) = Len(ContainerRecords(platform))

\* C25 as stated: at the end of a run in which the repository listing of a container
\* was answered non-200, every container of the platform had its repositories
\* listed, in the inspector as in the scripts.
C25_RemainingContainersProcessed ==
    Exited =>
       \A p \in PlatformSet :
          FailedOfContainer(p) # <<>> => EveryContainerListed(p)

\* C25 amended: in the scripts every container had its repositories listed; in the
\* inspector the failed listing is the platform's last request, its failure is the
\* platform's one error, and every platform with credentials is exported.
C25_FailedListingPerProgram ==
    Exited =>
       \A p \in PlatformSet :
          FailedOfContainer(p) # <<>> =>
             IF Script
               THEN EveryContainerListed(p)
               ELSE /\ Len(FailedOfContainer(p)) = 1
                    /\ FailedOfContainer(p)[1] = Last(Of(net.log, p))
                    /\ Last(ContainerHeads(p)).call = FailedOfContainer(p)[1].call
                    /\ Len(errors[p]) = 1
                    /\ errors[p][1] \in MessagesOf(FailedOfContainer(p)[1])
                    /\ \A q \in Range(valid_inspectors) : Exported(q)

\* the inspector ended after the repository listing of the first of two Bitbucket
\* workspaces failed: the second was not listed, and a second platform was exported
C25_Witness ==
    /\ prog = "multi_platform_inspector" /\ Exited
    /\ FailedOfContainer(BB) # <<>>
    /\ Len(ContainerRecords(BB)) = 2 /\ Len(ContainerHeads(BB)) = 1
    /\ Len(export_data) >= 2

-----------------------------------------------------------------------------
(* The Bitbucket script and then the inspector, with the credentials of     *)
(* Bitbucket alone, against a server that answers the inspector's requests  *)
(* as it answered the script's.                                             *)

InitBitbucket ==
    /\ prog = "bitbucket_repos_user_list"
    /\ env = {"BITBUCKET_USERNAME", "BITBUCKET_APP_PASSWORD"}
    /\ args \in ArgChoices
    /\ Started
    /\ clock = 0
    /\ net = Server(MaxBudget)
    /\ run = FirstRun

\* the inspector is started after the script has exited
RerunAsInspector ==
    /\ pc = "exit" /\ run.no = 1 /\ prog = "bitbucket_repos_user_list"
    /\ run' = [no |-> 2, mode |-> "replay", tape |-> net.log, before |-> <<Outcome>>]
    /\ prog' = "multi_platform_inspector"
    /\ pc' = "start" /\ at' = "start"
    /\ url' = None /\ params' = NoParams /\ acc' = <<>>
    /\ containers' = <<>> /\ ci' = 0 /\ repos' = <<>> /\ ri' = 0
    /\ repositories' = [p \in PlatformSet |-> <<>>]
    /\ errors' = [p \in PlatformSet |-> <<>>]
    /\ valid_inspectors' = <<>> /\ vi' = 0
    /\ export_data' = <<>> /\ total_repositories' = 0
    /\ console' = <<>> /\ csvfile' = NotWritten /\ jsonfile' = NotWritten
    /\ exitcode' = -1 /\ exc' = <<>>
    /\ clock' = clock + 1
    /\ net' = Server(0)
    /\ UNCHANGED <<env, args>>

NextBitbucket ==
    \/ bitbucket_credential_check
    \/ bitbucket_main
    \/ bitbucket_get_workspaces
    \/ bitbucket_get_admin_repos
    \/ bitbucket_get_repo_users
    \/ RerunAsInspector
    \/ main
    \/ BitbucketInspector_inspect
    \/ BitbucketInspector_get_workspaces
    \/ BitbucketInspector_get_admin_repos
    \/ BitbucketInspector_get_repo_users

SpecBitbucket == InitBitbucket /\ [][NextBitbucket]_vars

\* the requests of a log and their answers, without the names of the functions
Requests(log) ==
    [i \in 1..Len(log) |-> [url |-> log[i].url, params |-> log[i].params,
                            page |-> log[i].page]]

\* the report as (workspace, repository slug, repository full name, access entries)
Tuples(report, full_name) ==
    [i \in 1..Len(report) |->
       <<report[i].workspace, report[i].slug, report[i][full_name], report[i].users>>]

\* a workspace or repository listing that was answered non-200
ListingFailed(e) ==
    Listing(e) \in {"workspaces", "repositories"} /\ e.page.status # 200

\* the inspector is running, after the script
InspectorAfterScript == run.no = 2 /\ prog = "multi_platform_inspector"

ScriptReport == run.before[1].repositories[BB]

\* C26: the inspector, served what the script was served, sends the requests the
\* script sent, in order, and builds the script's report up to field naming, as far as
\* it goes; when no workspace or repository listing was answered non-200 it goes as
\* far as the script: same requests, same (workspace, slug, full name, access
\* entries) tuples, no error.  When one was, the inspector's last request is the
\* first such failure, where the script went on.
C26_ScriptAndInspectorAgree ==
    InspectorAfterScript =>
       /\ IsPrefix(Requests(net.log), Requests(run.tape))
       /\ IsPrefix(Tuples(repositories[BB], "name"), Tuples(ScriptReport, "full_name"))
       /\ pc \in {"_get_workspaces", "_get_admin_repos", "_get_repo_users"} =>
             Len(net.log) < Len(run.tape)
       /\ pc = "exit" =>
             IF \E i \in 1..Len(run.tape) : ListingFailed(run.tape[i])
               THEN /\ ListingFailed(Last(net.log))
                    /\ \A i \in 1..(Len(net.log) - 1) : ~ListingFailed(run.tape[i])
                    /\ Len(errors[BB]) = 1
               ELSE /\ Requests(net.log) = Requests(run.tape)
                    /\ Tuples(repositories[BB], "name") = Tuples(ScriptReport, "full_name")
                    /\ errors[BB] = <<>> /\ exitcode = 0

\* the inspector has ended after a script whose requests were all answered 200, both
\* with a report of a repository with an access entry
C26_Witness ==
    /\ InspectorAfterScript /\ pc = "exit"
    /\ \A i \in 1..Len(run.tape) : run.tape[i].page.status = 200
    /\ Len(net.log) >= 3
    /\ Len(repositories[BB]) >= 1 /\ repositories[BB][1].users # <<>>
    /\ Len(ScriptReport) = Len(repositories[BB])

-----------------------------------------------------------------------------
(* A repository that two listings return. *)

\* the platforms with a personal listing and listings by organization or group
TwoListings == {GH, GL}

Count(s, x) == Cardinality({i \in DOMAIN s : s[i] = x})

\* the records among those of entries that pass the platform's filter, each with the
\* URL of its access entries
Passing(platform, entries) ==
    LET listing == RepositoryListing(platform) IN
    UNION {{[name |-> SentName(platform, r), url |-> AccessUrl(platform, entries[i], r)] :
              r \in {x \in Range(entries[i].page.values) : Admitted(listing, x)}} :
             i \in 1..Len(entries)}

\* the report has the repository as a personal one and as one of an organization or
\* group, and its access entries were fetched twice or more
ReportedTwice(platform, r) ==
    /\ \E i \in 1..Len(repositories[platform]) :
          /\ Personal(repositories[platform][i])
          /\ ReportedName(platform, repositories[platform][i]) = r.name
    /\ \E i \in 1..Len(repositories[platform]) :
          /\ ~Personal(repositories[platform][i])
          /\ ReportedName(platform, repositories[platform][i]) = r.name
    /\ Count(Urls(AccessHeads(platform)), r.url) >= 2

\* the report has as many entries of a name as the listings returned records of it
NothingMerged(platform) ==
    LET sent == ListedUrls(platform)
        fetched == Urls(AccessHeads(platform))
    IN  /\ Len(repositories[platform]) = Len(sent)
        /\ \A u \in Range(sent) : Count(fetched, u) = Count(sent, u)

-----------------------------------------------------------------------------
(* The programs with a personal listing and listings by organization or     *)
(* group, each with its credentials, against a server with one more to hand *)
(* out: enough for a listing to fail on its second page after the personal  *)
(* listing has returned a repository.                                        *)

InitTwoListings ==
    /\ \/ prog = "github_repos_user_list" /\ env = {"GITHUB_USERNAME", "GITHUB_TOKEN"}
       \/ prog = "gitlab_repos_user_list" /\ env = {"GITLAB_TOKEN"}
       \/ prog = "multi_platform_inspector" /\ env \in {{"GITHUB_TOKEN"}, {"GITLAB_TOKEN"}}
    /\ args = [csv |-> TRUE, json |-> TRUE, quiet |-> FALSE]
    /\ Started
    /\ clock = 0
    /\ net = Server(MaxBudget + 1)
    /\ run = FirstRun

NextTwoListings ==
    \/ github_credential_check
    \/ github_main
    \/ github_get_admin_repos
    \/ github_get_user_organizations
    \/ github_get_org_admin_repos
    \/ github_get_repo_collaborators
    \/ gitlab_credential_check
    \/ gitlab_main
    \/ gitlab_get_user_projects
    \/ gitlab_get_user_groups
    \/ gitlab_get_group_projects
    \/ gitlab_get_project_members
    \/ main
    \/ GitHubInspector_inspect
    \/ GitHubInspector_get_admin_repos
    \/ GitHubInspector_get_user_organizations
    \/ GitHubInspector_get_org_admin_repos
    \/ GitHubInspector_get_repo_collaborators
    \/ GitLabInspector_inspect
    \/ GitLabInspector_get_user_projects
    \/ GitLabInspector_get_user_groups
    \/ GitLabInspector_get_group_projects
    \/ GitLabInspector_get_project_members

SpecTwoListings == InitTwoListings /\ [][NextTwoListings]_vars

\* C27 as stated: at the end of a run a GitHub repository or GitLab project that
\* passes the filter and that the personal listing and an organization or group
\* listing were both sent is in the report twice, once as personal and once as of the
\* organization or group, and its access entries were fetched twice.
C27_ReportedOncePerListing ==
    Exited =>
       \A p \in TwoListings :
          LET es == ListingEntries(p, {RepositoryListing(p)}) IN
          \A r \in Passing(p, SelectSeq(es, OfPerson)) :
             (\E c \in Passing(p, SelectSeq(es, OfContainer)) : c.name = r.name)
                => ReportedTwice(p, r)

\* C27 amended: the same for the listings that were not abandoned, of which the
\* report has one entry for every passing record and one fetch of access entries; an
\* inspector listing that gets a non-200 page raises and reports none of its records.
C27_ReportedOncePerKeptListing ==
    Exited =>
       \A p \in TwoListings :
          LET es == KeptEntries(p, {RepositoryListing(p)}) IN
          /\ NothingMerged(p)
          /\ \A r \in Passing(p, SelectSeq(es, OfPerson)) :
                (\E c \in Passing(p, SelectSeq(es, OfContainer)) : c.name = r.name)
                   => ReportedTwice(p, r)

\* the inspector ended with a GitHub repository reported as personal and as of an
\* organization
C27_Witness ==
    /\ prog = "multi_platform_inspector" /\ Exited
    /\ Len(repositories[GH]) = 2
    /\ Personal(repositories[GH][1]) /\ ~Personal(repositories[GH][2])
    /\ repositories[GH][1].name = repositories[GH][2].name
    /\ Len(AccessHeads(GH)) = 2
    /\ AccessHeads(GH)[1].url = AccessHeads(GH)[2].url

-----------------------------------------------------------------------------
(* The access entries of a reported Azure DevOps repository. *)

\* the lookups that granted access, and the requests for access entries, in order:
\* the i-th reported repository is that of the i-th of each
Granting == SelectSeq(LookupHeads, Grants)

\* the permissions of the entries of users in an answer, in order; none when the
\* answer is not 200
UserPermissions(page) ==
    LET entries == SelectSeq(page.values,
                             LAMBDA x : "identityType" \in DOMAIN x /\ x.identityType = "user")
    IN  [j \in 1..Len(entries) |->
           IF "permission" \in DOMAIN entries[j] THEN entries[j].permission ELSE "unknown"]

ReportedPermissions(i) ==
    [j \in 1..Len(repositories[AZ][i].users) |-> repositories[AZ][i].users[j].permission]

\* the errors of the platform come from listings that raised, and from nothing else
ErrorsOnlyRaised(platform) ==
    Len(errors[platform])
       <= Cardinality({k \in 1..Len(net.log) :
                          net.log[k].platform = platform /\ Raised(net.log[k])})

\* C28: a reported Azure DevOps repository whose request for access entries was
\* answered as its permissions lookup was has a non-empty list of access entries with
\* one of Administer or Manage among them; when the answer differs, a non-200 one
\* included, the repository is reported all the same, with the entries of users of the
\* second answer (none when it is not 200), and no error is recorded for it.
C28_AzureEntriesOfSecondAnswer ==
    /\ Len(repositories[AZ]) <= Len(AccessHeads(AZ))
    /\ Len(AccessHeads(AZ)) <= Len(Granting)
    /\ \A i \in 1..Len(repositories[AZ]) :
          LET lookup == Granting[i]
              second == AccessHeads(AZ)[i]
          IN  /\ second.url = lookup.url
              /\ ReportedPermissions(i) = UserPermissions(second.page)
              /\ second.page = lookup.page =>
                    /\ repositories[AZ][i].users # <<>>
                    /\ \E j \in 1..Len(repositories[AZ][i].users) :
                          repositories[AZ][i].users[j].permission \in {"Administer", "Manage"}
    /\ prog = "multi_platform_inspector" /\ Of(net.log, AZ) # <<>> => ErrorsOnlyRaised(AZ)
    /\ (Exited /\ prog \in {"multi_platform_inspector", "azure_devops_repos_user_list"}) =>
          Len(repositories[AZ]) = Len(Granting)

\* the inspector ended with an Azure DevOps repository reported whose second answer
\* was not 200: it has no access entry and the platform has no error
C28_Witness ==
    /\ prog = "multi_platform_inspector" /\ Exited
    /\ Len(repositories[AZ]) = 1
    /\ AccessHeads(AZ)[1].page.status # 200
    /\ repositories[AZ][1].users = <<>>
    /\ errors[AZ] = <<>>

-----------------------------------------------------------------------------
(* The counts of the multi-platform export. *)

RECURSIVE SumOfLengths(_)
\* the sum of the lengths of the repositories lists of the entries of data
SumOfLengths(data) ==
    IF data = <<>> THEN 0
    ELSE Len(Head(data).repositories) + SumOfLengths(Tail(data))

\* every entry counts its own repositories list
CountsItsList(data) ==
    \A i \in 1..Len(data) : data[i].total_repositories = Len(data[i].repositories)

\* the platforms main has inspected and exported so far, in order
Inspected == [i \in 1..Len(export_data) |-> export_data[i].platform]

\* the summary line of the console, when main printed one
SummaryLines ==
    SelectSeq(console, LAMBDA line : line[1] = "Total repositories with admin access")

\* C29: in multi-platform mode, at every point of a run every export entry has
\* total_repositories equal to the length of its repositories list, which is the
\* inspector's own list, and the summary total of main is the sum of the lengths of the
\* repositories lists of the platforms inspected so far, a platform whose inspection
\* ended with an error included; the summary line printed and the JSON written show it.
C29_ExportCounts ==
    prog = "multi_platform_inspector" =>
        /\ CountsItsList(export_data)
        /\ \A i \in 1..Len(export_data) :
              /\ export_data[i].repositories = repositories[export_data[i].platform]
              /\ export_data[i].errors = errors[export_data[i].platform]
        /\ Inspected = SubSeq(valid_inspectors, 1, Len(export_data))
        /\ total_repositories = SumOfLengths(export_data)
        /\ \A k \in 1..Len(SummaryLines) :
              SummaryLines[k][2] = N(SumOfLengths(export_data))
        /\ jsonfile.written =>
              /\ CountsItsList(jsonfile.content)
              /\ SumOfLengths(jsonfile.content) = total_repositories

\* main ended after several platforms: one inspection ended with an error after a
\* repository was reported, another reported one too, and the total is two
C29_Witness ==
    /\ prog = "multi_platform_inspector" /\ Exited
    /\ jsonfile.written
    /\ total_repositories = 2
    /\ \E i, j \in 1..Len(export_data) :
          /\ i # j
          /\ export_data[i].errors # <<>>
          /\ export_data[i].total_repositories = 1
          /\ export_data[j].total_repositories = 1

-----------------------------------------------------------------------------
(* The platforms main inspects. *)

\* the platforms with complete credentials, in the order of the inspectors
ConfiguredPlatforms == SelectSeq(<<BB, GH, GL, AZ>>, Configured)

\* C30: in multi-platform mode, when no platform has complete credentials main
\* returns with no platform inspected, no request sent and no export written, --csv
\* and --json given or not; otherwise requests go to platforms with complete
\* credentials only, and at the end the export data has exactly one entry for each of
\* them, in order, and none for the others.
C30_ConfiguredPlatformsOnly ==
    prog = "multi_platform_inspector" =>
        /\ \A k \in 1..Len(net.log) : Configured(net.log[k].platform)
        /\ \A p \in PlatformSet : ~Configured(p) => repositories[p] = <<>> /\ ~Exported(p)
        /\ Inspected = SubSeq(ConfiguredPlatforms, 1, Len(export_data))
        /\ Exited =>
              /\ Inspected = ConfiguredPlatforms
              /\ ConfiguredPlatforms = <<>> =>
                    /\ net.log = <<>>
                    /\ export_data = <<>>
                    /\ repositories = [p \in PlatformSet |-> <<>>]
                    /\ ~csvfile.written /\ ~jsonfile.written
                    /\ exitcode = 0
              /\ ConfiguredPlatforms # <<>> =>
                    /\ csvfile.written = args.csv /\ jsonfile.written = args.json
                    /\ jsonfile.written =>
                          [i \in 1..Len(jsonfile.content) |-> jsonfile.content[i].platform]
                             = ConfiguredPlatforms

\* main returned with --csv and --json given and no platform configured
C30_Witness ==
    /\ prog = "multi_platform_inspector" /\ Exited
    /\ args.csv /\ args.json
    /\ ConfiguredPlatforms = <<>>
    /\ console # <<>>

\* main ended with some platforms exported and a platform with half its credentials
\* left out
C30_WitnessSome ==
    /\ prog = "multi_platform_inspector" /\ Exited
    /\ Inspected = <<GH>>
    /\ "BITBUCKET_USERNAME" \in env
    /\ jsonfile.written

====
